---- MODULE Spec2Model ----
(***************************************************************************)
(* Pishgoo backtesting core: core/backtester.py (Backtester),              *)
(* core/risk_manager.py (RiskManager) and the aggregation and execution    *)
(* gate of core/strategy.py (HybridAIStrategy).                            *)
(*                                                                         *)
(* Numbers.  Python floats are modelled as exact rationals <<n, d>> in     *)
(* lowest terms with d > 0 (rounding error of the float arithmetic is not  *)
(* modelled).  A division by a zero numpy.float64 does not raise: it       *)
(* yields nan or +-inf, modelled by the strings "nan", "inf", "-inf".      *)
(*                                                                         *)
(* Data frames.  A DataFrame of n rows is [n |-> n, tail |-> rows] where   *)
(* rows Warmup .. n-1 are held in tail and rows 0 .. Warmup-1, which the   *)
(* engine never reads, are the fixed rows WarmupBar(k).  Row k has index   *)
(* value (timestamp, in hours) ts and a close price.                       *)
(***************************************************************************)
EXTENDS Integers, Sequences, FiniteSets, TLC

VARIABLES
    instances,      \* the Backtester objects constructed over the strategy
    risk,           \* strategy.risk_manager: stop_loss, take_profit, max_position_size
    cache,          \* strategy.data_fetcher._cache (shared by every Backtester)
    pc,             \* pc[b]: position of run_backtest of Backtester b
    df,             \* df[b]: the DataFrame given to run_backtest
    symbol,         \* symbol[b]: the symbol given to run_backtest
    i,              \* i[b]: the loop index of run_backtest
    balance,        \* self.balance
    positions,      \* self.positions
    trades,         \* self.trades
    equity_curve,   \* self.equity_curve
    old_cache,      \* old_cache[b]: the local old_cache of run_backtest
    signal,         \* signal[b]: the local signal of run_backtest
    visible,        \* visible[b]: the market data the last signal query of b read
    result,         \* result[b]: the values run_backtest returned, one per call
    answers,        \* what the opinion sources answered, per market data queried
    unit            \* the last direct call of a pure function, with its result

vars == <<instances, risk, cache, pc, df, symbol, i, balance, positions,
          trades, equity_curve, old_cache, signal, visible, result,
          answers, unit>>

-----------------------------------------------------------------------------
(* Bounds of the model *)

MaxTail == 2

InitialBalance == 1000

Warmup == 50

Insts == {1, 2}

-----------------------------------------------------------------------------
(* Exact rational arithmetic *)

RECURSIVE GCD(_, _)
GCD(a, b) == IF b = 0 THEN a ELSE GCD(b, a % b)

Abs(x) == IF x < 0 THEN -x ELSE x

R(n, d) ==
    LET s == IF d < 0 THEN -1 ELSE 1
        g == GCD(Abs(n), Abs(d))
    IN  <<(s * n) \div g, (s * d) \div g>>

Zero == <<0, 1>>
One == <<1, 1>>
Hundred == <<100, 1>>

(* the operations divide out common factors before they multiply, so that  *)
(* the intermediate products stay small                                     *)
RAdd(x, y) ==
    LET g == GCD(x[2], y[2])
    IN  IF g = 0 THEN R(x[1] * y[2] + y[1] * x[2], x[2] * y[2])
        ELSE R(x[1] * (y[2] \div g) + y[1] * (x[2] \div g), (x[2] \div g) * y[2])
RSub(x, y) == RAdd(x, <<-y[1], y[2]>>)
RMul(x, y) ==
    LET g == GCD(Abs(x[1]), y[2])
        h == GCD(Abs(y[1]), x[2])
    IN  IF g = 0 \/ h = 0 THEN R(x[1] * y[1], x[2] * y[2])
        ELSE R((x[1] \div g) * (y[1] \div h), (x[2] \div h) * (y[2] \div g))
RDiv(x, y) ==
    IF y[1] = 0 THEN R(x[1] * y[2], x[2] * y[1])
    ELSE RMul(x, IF y[1] < 0 THEN <<-y[2], -y[1]>> ELSE <<y[2], y[1]>>)
RLt(x, y) ==
    LET g == GCD(x[2], y[2])
    IN  IF g = 0 THEN x[1] * y[2] < y[1] * x[2]
        ELSE x[1] * (y[2] \div g) < y[1] * (x[2] \div g)
RLeq(x, y) ==
    LET g == GCD(x[2], y[2])
    IN  IF g = 0 THEN x[1] * y[2] <= y[1] * x[2]
        ELSE x[1] * (y[2] \div g) <= y[1] * (x[2] \div g)
RMin(x, y) == IF RLeq(x, y) THEN x ELSE y
Sign(x) == IF x[1] < 0 THEN -1 ELSE IF x[1] = 0 THEN 0 ELSE 1

(* numpy.float64 division: x / y with y = 0 gives nan or +-inf, no exception *)
NpDiv(x, y) ==
    IF y[1] = 0
    THEN (IF x[1] = 0 THEN "nan" ELSE IF x[1] > 0 THEN "inf" ELSE "-inf")
    ELSE RDiv(x, y)

-----------------------------------------------------------------------------
(* RiskManager *)

RiskConfigs ==
    { [stop_loss |-> R(3, 100), take_profit |-> R(5, 100), max_position_size |-> R(1, 5)],
      [stop_loss |-> Zero, take_profit |-> Zero, max_position_size |-> R(1, 5)] }

(* risk_percent = None is <<>>; `risk_percent or self.max_position_size`    *)
(* takes the default for None and for 0, both falsy                        *)
None == <<>>

(* the size without the cap of line 42 *)
PositionSizeUncapped(bal, price, risk_percent) ==
    LET rp == IF risk_percent = None \/ risk_percent = Zero
              THEN risk.max_position_size ELSE risk_percent
    IN  RMul(bal, rp)

calculate_position_size(bal, price, risk_percent) ==
    LET rp == IF risk_percent = None \/ risk_percent = Zero
              THEN risk.max_position_size ELSE risk_percent
        max_amount == RMul(bal, rp)
    IN  RMin(max_amount, RMul(bal, risk.max_position_size))

(* the validation that requires amount * price of a sell as of a buy *)
ValidateOrderAsBuy(side, amount, price, bal) ==
    LET required_balance == RMul(amount, price)
        max_position == RMul(bal, risk.max_position_size)
        position_value == RMul(amount, price)
    IN  IF RLt(bal, required_balance)
        THEN [valid |-> FALSE, reason |-> "Insufficient balance"]
        ELSE IF RLt(max_position, position_value)
        THEN [valid |-> FALSE, reason |-> "Position size exceeds maximum"]
        ELSE [valid |-> TRUE, reason |-> "Order validated"]

validate_order(side, amount, price, bal) ==
    LET required_balance == IF side = "buy" THEN RMul(amount, price) ELSE amount
        max_position == RMul(bal, risk.max_position_size)
        position_value == RMul(amount, price)
    IN  IF RLt(bal, required_balance)
        THEN [valid |-> FALSE, reason |-> "Insufficient balance"]
        ELSE IF RLt(max_position, position_value)
        THEN [valid |-> FALSE, reason |-> "Position size exceeds maximum"]
        ELSE [valid |-> TRUE, reason |-> "Order validated"]

calculate_stop_loss_price(entry_price, side) ==
    IF side = "buy"
    THEN RMul(entry_price, RSub(One, risk.stop_loss))
    ELSE RMul(entry_price, RAdd(One, risk.stop_loss))

calculate_take_profit_price(entry_price, side) ==
    IF side = "buy"
    THEN RMul(entry_price, RAdd(One, risk.take_profit))
    ELSE RMul(entry_price, RSub(One, risk.take_profit))

(* the stop-loss check with the boundary excluded *)
CheckStopLossStrict(entry_price, current_price, side) ==
    LET stop_loss_price == calculate_stop_loss_price(entry_price, side)
    IN  IF side = "buy"
        THEN RLt(current_price, stop_loss_price)
        ELSE RLt(stop_loss_price, current_price)

check_stop_loss(entry_price, current_price, side) ==
    LET stop_loss_price == calculate_stop_loss_price(entry_price, side)
    IN  IF side = "buy"
        THEN RLeq(current_price, stop_loss_price)
        ELSE RLeq(stop_loss_price, current_price)

check_take_profit(entry_price, current_price, side) ==
    LET take_profit_price == calculate_take_profit_price(entry_price, side)
    IN  IF side = "buy"
        THEN RLeq(take_profit_price, current_price)
        ELSE RLeq(current_price, take_profit_price)

-----------------------------------------------------------------------------
(* HybridAIStrategy: aggregation of the sources' opinions (generate_signal) *)
(* and the execution gate (should_execute_trade)                            *)

confidence_threshold == R(7, 10)

(* The opinions the sources may give for one query: (signals, confidences). *)
Op(a, c) == [action |-> a, confidence |-> c]

OpinionSeqs ==
    { <<Op("buy", R(9, 10)), Op("buy", R(8, 10))>>,
      <<Op("sell", R(9, 10)), Op("sell", R(8, 10))>>,
      <<Op("buy", R(9, 10)), Op("buy", R(8, 10)), Op("hold", R(1, 10))>>,
      <<Op("buy", R(9, 10)), Op("sell", R(9, 10))>>,
      <<Op("hold", R(9, 10)), Op("hold", R(6, 10)), Op("buy", R(9, 10))>> }

RECURSIVE Count(_, _)
Count(ops, a) ==
    IF ops = <<>> THEN 0
    ELSE (IF Head(ops).action = a THEN 1 ELSE 0) + Count(Tail(ops), a)

RECURSIVE SumConf(_)
SumConf(ops) ==
    IF ops = <<>> THEN Zero ELSE RAdd(Head(ops).confidence, SumConf(Tail(ops)))

NoVotes == [buy |-> 0, sell |-> 0, hold |-> 0, total |-> 0]

HoldSignal(why) ==
    [action |-> "hold", confidence |-> Zero, reason |-> why, signals |-> NoVotes]

(* the consensus where a tie between buy and the rest goes to buy *)
ConsensusTieBuys(ops) ==
    LET buy_votes == Count(ops, "buy")
        sell_votes == Count(ops, "sell")
        hold_votes == Count(ops, "hold")
        total_votes == Len(ops)
    IN  IF buy_votes >= sell_votes /\ buy_votes >= hold_votes
        THEN [action |-> "buy", signal_strength |-> R(buy_votes, total_votes)]
        ELSE IF sell_votes > buy_votes /\ sell_votes > hold_votes
        THEN [action |-> "sell", signal_strength |-> R(sell_votes, total_votes)]
        ELSE [action |-> "hold", signal_strength |-> Zero]

(* the consensus where a plurality of hold votes has the strength of its share *)
ConsensusHoldCounts(ops) ==
    LET buy_votes == Count(ops, "buy")
        sell_votes == Count(ops, "sell")
        hold_votes == Count(ops, "hold")
        total_votes == Len(ops)
    IN  IF buy_votes > sell_votes /\ buy_votes > hold_votes
        THEN [action |-> "buy", signal_strength |-> R(buy_votes, total_votes)]
        ELSE IF sell_votes > buy_votes /\ sell_votes > hold_votes
        THEN [action |-> "sell", signal_strength |-> R(sell_votes, total_votes)]
        ELSE IF hold_votes > buy_votes /\ hold_votes > sell_votes
        THEN [action |-> "hold", signal_strength |-> R(hold_votes, total_votes)]
        ELSE [action |-> "hold", signal_strength |-> Zero]

(* strategy.py 122-140: the votes and the action of the consensus, for a    *)
(* non-empty list of signals                                                *)
Consensus(ops) ==
    LET buy_votes == Count(ops, "buy")
        sell_votes == Count(ops, "sell")
        hold_votes == Count(ops, "hold")
        total_votes == Len(ops)
    IN  IF buy_votes > sell_votes /\ buy_votes > hold_votes
        THEN [action |-> "buy", signal_strength |-> R(buy_votes, total_votes)]
        ELSE IF sell_votes > buy_votes /\ sell_votes > hold_votes
        THEN [action |-> "sell", signal_strength |-> R(sell_votes, total_votes)]
        ELSE [action |-> "hold", signal_strength |-> Zero]

(* the aggregation that reports confidence 0 for a signal below the threshold *)
AggregateZeroed(ops) ==
    IF ops = <<>> THEN HoldSignal("No signals generated")
    ELSE
    LET avg_confidence == RDiv(SumConf(ops), R(Len(ops), 1))
        consensus == Consensus(ops)
        final_confidence == RMul(avg_confidence, consensus.signal_strength)
        below == RLt(final_confidence, confidence_threshold)
    IN  [action |-> IF below THEN "hold" ELSE consensus.action,
         confidence |-> IF below THEN Zero ELSE final_confidence,
         reason |-> IF below THEN "below threshold" ELSE "consensus",
         signals |-> [buy |-> Count(ops, "buy"), sell |-> Count(ops, "sell"),
                      hold |-> Count(ops, "hold"), total |-> Len(ops)]]

(* strategy.py 114-169: the consensus over the collected signals *)
Aggregate(ops) ==
    IF ops = <<>> THEN HoldSignal("No signals generated")
    ELSE
    LET avg_confidence == RDiv(SumConf(ops), R(Len(ops), 1))
        consensus == Consensus(ops)
        final_confidence == RMul(avg_confidence, consensus.signal_strength)
        below == RLt(final_confidence, confidence_threshold)
    IN  [action |-> IF below THEN "hold" ELSE consensus.action,
         confidence |-> final_confidence,
         reason |-> IF below THEN "below threshold" ELSE "consensus",
         signals |-> [buy |-> Count(ops, "buy"), sell |-> Count(ops, "sell"),
                      hold |-> Count(ops, "hold"), total |-> Len(ops)]]

(* a trade for every signal that is not a hold, whatever its confidence *)
ShouldExecuteAnyConfidence(sig) == sig.action # "hold"

(* strategy.py 179-202 *)
should_execute_trade(sig) ==
    IF RLt(sig.confidence, confidence_threshold) THEN FALSE
    ELSE IF sig.action = "hold" THEN FALSE
    ELSE TRUE

-----------------------------------------------------------------------------
(* Data frames *)

Prices == { Zero, R(1, 2), One, R(2, 1), R(6, 1) }

WarmupBar(k) == [ts |-> k, close |-> One]

(* the tails of k rows: row Warmup+j-1 has a close in Prices and its own    *)
(* timestamp, or (malformed) the timestamp of the row before it             *)
TailsOfLen(k) ==
    { [j \in 1..k |-> [ts |-> Warmup + j - 1 - late[j], close |-> pr[j]]] :
        pr \in [1..k -> Prices], late \in [1..k -> {0, 1}] }

BarSeqs ==
    { [n |-> 0, tail |-> <<>>], [n |-> Warmup - 1, tail |-> <<>>] }
    \cup UNION { { [n |-> Warmup + k, tail |-> t] : t \in TailsOfLen(k) } : k \in 0..MaxTail }

(* df.iloc[k] and df.index[k], 0 <= k < d.n *)
Row(d, k) == IF k < Warmup THEN WarmupBar(k) ELSE d.tail[k - Warmup + 1]

(* df.iloc[:k] *)
Slice(d, k) ==
    LET m == IF k < d.n THEN k ELSE d.n
    IN  [n |-> m, tail |-> SubSeq(d.tail, 1, IF m > Warmup THEN m - Warmup ELSE 0)]

EmptyFrame == [n |-> 0, tail |-> <<>>]

(* Malformed input: a non-positive close or a timestamp not above the one before *)
Malformed(d) ==
    \E k \in 0..(d.n - 1) :
        \/ ~RLt(Zero, Row(d, k).close)
        \/ k > 0 /\ Row(d, k).ts <= Row(d, k - 1).ts

-----------------------------------------------------------------------------
(* The data fetcher's cache: a mapping from "<symbol>_1h" to (0, data).     *)
(* The cache is a set of [key, data] entries, one per key.                  *)

Symbols == {"BTCIRT", "ETHIRT"}

Cache0 == {}

(* data_fetcher.get_market_data(symbol): the data cached for the symbol,   *)
(* EmptyFrame when the cache holds none                                     *)
get_market_data(c, sym) ==
    IF \E e \in c : e.key = sym
    THEN (CHOOSE e \in c : e.key = sym).data
    ELSE EmptyFrame

-----------------------------------------------------------------------------
(* Backtester: the ledger operations.  A ledger L is                        *)
(* [balance, positions, trades]; each operation returns the ledger it       *)
(* leaves.  A position and its trade carry `bar`, the index of the bar at   *)
(* which the position dict was created: it stands for the identity of the   *)
(* Python object and is not a key of the dict.                              *)

Ledger(b) == [balance |-> balance[b], positions |-> positions[b], trades |-> trades[b]]

(* dict equality, as list.remove compares: every key of the dict *)
SameDict(p, q) == [p EXCEPT !.bar = 0] = [q EXCEPT !.bar = 0]

(* list.remove(x): drops the first element equal to x *)
RECURSIVE RemoveFirst(_, _)
RemoveFirst(ps, x) ==
    IF ps = <<>> THEN <<>>
    ELSE IF SameDict(Head(ps), x) THEN Tail(ps)
    ELSE <<Head(ps)>> \o RemoveFirst(Tail(ps), x)

(* a pnl that ignores the side of the position *)
PnlLongOnly(position, exit_price) ==
    RMul(RSub(exit_price, position.entry_price), position.amount)

Pnl(position, exit_price) ==
    IF position.side = "buy"
    THEN RMul(RSub(exit_price, position.entry_price), position.amount)
    ELSE RMul(RSub(position.entry_price, exit_price), position.amount)

PnlPct(position, pnl) ==
    LET basis == RMul(position.entry_price, position.amount)
    IN  IF basis[1] = 0 THEN NpDiv(pnl, basis) ELSE RMul(NpDiv(pnl, basis), Hundred)

(* _close_position *)
ClosePosition(L, position, exit_price, timestamp) ==
    LET pnl == Pnl(position, exit_price)
        trade == [id |-> position.id,
                  symbol |-> position.symbol,
                  side |-> position.side,
                  entry_price |-> position.entry_price,
                  exit_price |-> exit_price,
                  amount |-> position.amount,
                  pnl |-> pnl,
                  pnl_pct |-> PnlPct(position, pnl),
                  entry_time |-> position.entry_time,
                  exit_time |-> timestamp,
                  duration |-> timestamp - position.entry_time,
                  signal |-> position.signal,
                  bar |-> position.bar]
    IN  [balance |-> RAdd(L.balance, RAdd(RMul(position.amount, exit_price), pnl)),
         positions |-> RemoveFirst(L.positions, position),
         trades |-> Append(L.trades, trade)]

Triggered(pos, current_price) ==
    \/ check_stop_loss(pos.entry_price, current_price, pos.side)
    \/ check_take_profit(pos.entry_price, current_price, pos.side)

(* positions_to_close with one entry per trigger that holds *)
RECURSIVE PositionsToClosePerTrigger(_, _)
PositionsToClosePerTrigger(ps, current_price) ==
    IF ps = <<>> THEN <<>>
    ELSE LET pos == Head(ps)
         IN  (IF check_stop_loss(pos.entry_price, current_price, pos.side)
              THEN <<pos>> ELSE <<>>)
             \o (IF check_take_profit(pos.entry_price, current_price, pos.side)
                 THEN <<pos>> ELSE <<>>)
             \o PositionsToClosePerTrigger(Tail(ps), current_price)

(* positions_to_close by the stop-loss check alone *)
RECURSIVE PositionsToCloseStopOnly(_, _)
PositionsToCloseStopOnly(ps, current_price) ==
    IF ps = <<>> THEN <<>>
    ELSE (IF check_stop_loss(Head(ps).entry_price, current_price, Head(ps).side)
          THEN <<Head(ps)>> ELSE <<>>)
         \o PositionsToCloseStopOnly(Tail(ps), current_price)

(* _check_exit_conditions 159-177: positions_to_close *)
RECURSIVE PositionsToClose(_, _)
PositionsToClose(ps, current_price) ==
    IF ps = <<>> THEN <<>>
    ELSE (IF Triggered(Head(ps), current_price) THEN <<Head(ps)>> ELSE <<>>)
         \o PositionsToClose(Tail(ps), current_price)

(* _check_exit_conditions 179-180 *)
RECURSIVE CloseEach(_, _, _, _)
CloseEach(L, to_close, current_price, timestamp) ==
    IF to_close = <<>> THEN L
    ELSE CloseEach(ClosePosition(L, Head(to_close), current_price, timestamp),
                   Tail(to_close), current_price, timestamp)

CheckExitConditions(L, current_price, timestamp) ==
    CloseEach(L, PositionsToClose(L.positions, current_price), current_price, timestamp)

(* run_backtest 100-101: `for pos in self.positions` over the list that     *)
(* _close_position shrinks: the list iterator reads element k (from 1) of   *)
(* the list as it is then, and stops when k is past its end                 *)
RECURSIVE CloseRemaining(_, _, _, _)
CloseRemaining(L, k, final_price, timestamp) ==
    IF k > Len(L.positions) THEN L
    ELSE CloseRemaining(ClosePosition(L, L.positions[k], final_price, timestamp),
                        k + 1, final_price, timestamp)

(* _execute_trade *)
(* the entry attempt without the risk policy's validation of the order *)
ExecuteTradeNoValidation(L, sig, sym, price, timestamp, bar) ==
    LET position_size == calculate_position_size(L.balance, price, None)
        cost == RMul(position_size, price)
        position == [id |-> Len(L.positions) + 1,
                     symbol |-> sym,
                     side |-> sig.action,
                     entry_price |-> price,
                     amount |-> position_size,
                     entry_time |-> timestamp,
                     stop_loss |-> calculate_stop_loss_price(price, sig.action),
                     take_profit |-> calculate_take_profit_price(price, sig.action),
                     signal |-> sig,
                     bar |-> bar]
    IN  IF sig.action = "hold" THEN L
        ELSE IF RLeq(position_size, Zero) THEN L
        ELSE IF RLt(L.balance, cost) THEN L
        ELSE [L EXCEPT !.positions = Append(L.positions, position),
                       !.balance = RSub(L.balance, cost)]

ExecuteTrade(L, sig, sym, price, timestamp, bar) ==
    LET position_size == calculate_position_size(L.balance, price, None)
        cost == RMul(position_size, price)
        validation == validate_order(sig.action, position_size, price, L.balance)
        position == [id |-> Len(L.positions) + 1,
                     symbol |-> sym,
                     side |-> sig.action,
                     entry_price |-> price,
                     amount |-> position_size,
                     entry_time |-> timestamp,
                     stop_loss |-> calculate_stop_loss_price(price, sig.action),
                     take_profit |-> calculate_take_profit_price(price, sig.action),
                     signal |-> sig,
                     bar |-> bar]
    IN  IF sig.action = "hold" THEN L
        ELSE IF RLeq(position_size, Zero) THEN L
        ELSE IF RLt(L.balance, cost) THEN L
        ELSE IF ~validation.valid THEN L
        ELSE [L EXCEPT !.positions = Append(L.positions, position),
                       !.balance = RSub(L.balance, cost)]

(* a snapshot of the cash balance alone, the open positions left out *)
EquityBalanceOnly(bal, ps, current_price) == bal

UnrealizedPnl(pos, current_price) == Pnl(pos, current_price)

(* _update_equity: the value appended to equity_curve *)
RECURSIVE Equity(_, _, _)
Equity(bal, ps, current_price) ==
    IF ps = <<>> THEN bal
    ELSE Equity(RAdd(bal, UnrealizedPnl(Head(ps), current_price)), Tail(ps), current_price)

-----------------------------------------------------------------------------
(* Backtester: the results *)

initial_balance == R(InitialBalance, 1)

(* a zero-valued result whose equity curve is left empty *)
EmptyResultsNoSeed ==
    [total_return |-> Zero, total_pnl |-> Zero,
     initial_balance |-> initial_balance, final_balance |-> initial_balance,
     total_trades |-> 0, winning_trades |-> 0, losing_trades |-> 0,
     win_rate |-> Zero, avg_win |-> Zero, avg_loss |-> Zero,
     profit_factor |-> Zero, max_drawdown |-> Zero, sharpe_ratio |-> Zero,
     equity_curve |-> <<>>, trades |-> <<>>]

(* a zero-valued result whose final balance is zeroed with the metrics *)
EmptyResultsZeroBalance ==
    [total_return |-> Zero, total_pnl |-> Zero,
     initial_balance |-> initial_balance, final_balance |-> Zero,
     total_trades |-> 0, winning_trades |-> 0, losing_trades |-> 0,
     win_rate |-> Zero, avg_win |-> Zero, avg_loss |-> Zero,
     profit_factor |-> Zero, max_drawdown |-> Zero, sharpe_ratio |-> Zero,
     equity_curve |-> <<initial_balance>>, trades |-> <<>>]

(* _empty_results *)
EmptyResults ==
    [total_return |-> Zero, total_pnl |-> Zero,
     initial_balance |-> initial_balance, final_balance |-> initial_balance,
     total_trades |-> 0, winning_trades |-> 0, losing_trades |-> 0,
     win_rate |-> Zero, avg_win |-> Zero, avg_loss |-> Zero,
     profit_factor |-> Zero, max_drawdown |-> Zero, sharpe_ratio |-> Zero,
     equity_curve |-> <<initial_balance>>, trades |-> <<>>]

RECURSIVE SumPnl(_)
SumPnl(ts) == IF ts = <<>> THEN Zero ELSE RAdd(Head(ts).pnl, SumPnl(Tail(ts)))

Wins(ts) == SelectSeq(ts, LAMBDA t : RLt(Zero, t.pnl))
Losses(ts) == SelectSeq(ts, LAMBDA t : RLt(t.pnl, Zero))

RAbs(x) == IF x[1] < 0 THEN R(-x[1], x[2]) ELSE x

(* min over t of (equity[t] - running_max[t]) / running_max[t] * 100 *)
RECURSIVE MinDrawdown(_, _, _)
MinDrawdown(eq, running_max, low) ==
    IF eq = <<>> THEN low
    ELSE LET m == IF RLt(running_max, Head(eq)) THEN Head(eq) ELSE running_max
             d == RMul(RDiv(RSub(Head(eq), m), m), Hundred)
         IN  MinDrawdown(Tail(eq), m, RMin(low, d))

(* _calculate_metrics (sharpe_ratio, a square root, is left out) *)
CalculateMetrics(ts, eq) ==
    IF ts = <<>> THEN EmptyResults
    ELSE
    LET last == eq[Len(eq)]
        total_return == RMul(RDiv(RSub(last, initial_balance), initial_balance), Hundred)
        winning_trades == Len(Wins(ts))
        total_trades == Len(ts)
        win_rate == RMul(R(winning_trades, total_trades), Hundred)
        avg_win == IF winning_trades > 0
                   THEN RDiv(SumPnl(Wins(ts)), R(winning_trades, 1)) ELSE Zero
        avg_loss == IF Len(Losses(ts)) > 0
                    THEN RAbs(RDiv(SumPnl(Losses(ts)), R(Len(Losses(ts)), 1))) ELSE Zero
        profit_factor ==
            IF RLt(Zero, avg_loss) /\ total_trades - winning_trades > 0
            THEN RDiv(RMul(avg_win, R(winning_trades, 1)),
                      RMul(avg_loss, R(total_trades - winning_trades, 1)))
            ELSE Zero
    IN  [total_return |-> total_return, total_pnl |-> SumPnl(ts),
         initial_balance |-> initial_balance, final_balance |-> last,
         total_trades |-> total_trades, winning_trades |-> winning_trades,
         losing_trades |-> total_trades - winning_trades,
         win_rate |-> win_rate, avg_win |-> avg_win, avg_loss |-> avg_loss,
         profit_factor |-> profit_factor,
         max_drawdown |-> RAbs(MinDrawdown(eq, Head(eq), Zero)),
         equity_curve |-> eq, trades |-> ts]

-----------------------------------------------------------------------------
(* Backtester.run_backtest, step by step.  pc[b] is                         *)
(*   "idle"      constructed, run_backtest not called                       *)
(*   "exit"      line 76, about to check the exit conditions of bar i       *)
(*   "setcache"  lines 80-81    "signal"   lines 83-86                      *)
(*   "restore"   line 89        "entry"    lines 92-93                      *)
(*   "equity"    line 96        "liquidate" lines 99-101                    *)
(*   "metrics"   lines 104-107  "done"     returned                         *)

NoValue == <<>>

Init ==
    /\ instances = {1}
    /\ risk \in RiskConfigs
    /\ cache = Cache0
    /\ pc = [b \in Insts |-> "idle"]
    /\ df = [b \in Insts |-> EmptyFrame]
    /\ symbol = [b \in Insts |-> "BTCIRT"]
    /\ i = [b \in Insts |-> 0]
    /\ balance = [b \in Insts |-> initial_balance]
    /\ positions = [b \in Insts |-> <<>>]
    /\ trades = [b \in Insts |-> <<>>]
    /\ equity_curve = [b \in Insts |-> <<initial_balance>>]
    /\ old_cache = [b \in Insts |-> Cache0]
    /\ signal = [b \in Insts |-> NoValue]
    /\ visible = [b \in Insts |-> NoValue]
    /\ result = [b \in Insts |-> NoValue]
    /\ answers = {}
    /\ unit = NoValue

CurrentPrice(b) == Row(df[b], i[b]).close
CurrentTime(b) == Row(df[b], i[b]).ts

SetLedger(b, L) ==
    /\ balance' = [balance EXCEPT ![b] = L.balance]
    /\ positions' = [positions EXCEPT ![b] = L.positions]
    /\ trades' = [trades EXCEPT ![b] = L.trades]

(* the call without the reset of lines 63-67 *)
StartOnNoReset(b, frames, syms) ==
    /\ pc[b] = "idle"
    /\ \E d \in frames, sym \in syms :
        /\ df' = [df EXCEPT ![b] = d]
        /\ symbol' = [symbol EXCEPT ![b] = sym]
        /\ IF d.n < Warmup
           THEN /\ result' = [result EXCEPT ![b] = Append(@, EmptyResults)]
                /\ pc' = [pc EXCEPT ![b] = "done"]
                /\ UNCHANGED i
           ELSE /\ i' = [i EXCEPT ![b] = Warmup]
                /\ pc' = [pc EXCEPT ![b] = IF Warmup < d.n THEN "exit" ELSE "liquidate"]
                /\ UNCHANGED result
    /\ UNCHANGED <<answers, unit, instances, risk, cache, old_cache, signal, visible,
                   balance, positions, trades, equity_curve>>

(* lines 50-70: the call, the length check, the reset, the first loop test *)
StartOn(b, frames, syms) ==
    /\ pc[b] = "idle"
    /\ \E d \in frames, sym \in syms :
        /\ df' = [df EXCEPT ![b] = d]
        /\ symbol' = [symbol EXCEPT ![b] = sym]
        /\ IF d.n < Warmup
           THEN /\ result' = [result EXCEPT ![b] = Append(@, EmptyResults)]
                /\ pc' = [pc EXCEPT ![b] = "done"]
                /\ UNCHANGED <<i, balance, positions, trades, equity_curve>>
           ELSE /\ balance' = [balance EXCEPT ![b] = initial_balance]
                /\ positions' = [positions EXCEPT ![b] = <<>>]
                /\ trades' = [trades EXCEPT ![b] = <<>>]
                /\ equity_curve' = [equity_curve EXCEPT ![b] = <<initial_balance>>]
                /\ i' = [i EXCEPT ![b] = Warmup]
                /\ pc' = [pc EXCEPT ![b] = IF Warmup < d.n THEN "exit" ELSE "liquidate"]
                /\ UNCHANGED result
    /\ UNCHANGED <<answers, unit, instances, risk, cache, old_cache, signal, visible>>

Start(b) == StartOn(b, BarSeqs, {"BTCIRT"})

(* line 76 *)
CheckExit(b) ==
    /\ pc[b] = "exit"
    /\ SetLedger(b, CheckExitConditions(Ledger(b), CurrentPrice(b), CurrentTime(b)))
    /\ pc' = [pc EXCEPT ![b] = "setcache"]
    /\ UNCHANGED <<answers, unit, instances, risk, cache, df, symbol, i, equity_curve,
                   old_cache, signal, visible, result>>

(* a slice one row too long: df.iloc[:i+2] *)
CurrentDataAhead(b) == Slice(df[b], i[b] + 2)

(* lines 71, 80-81: current_data = df.iloc[:i+1] replaces the cache *)
CurrentData(b) == Slice(df[b], i[b] + 1)

SetCache(b) ==
    /\ pc[b] = "setcache"
    /\ old_cache' = [old_cache EXCEPT ![b] = cache]
    /\ cache' = { [key |-> symbol[b], data |-> CurrentData(b)] }
    /\ pc' = [pc EXCEPT ![b] = "signal"]
    /\ UNCHANGED <<answers, unit, instances, risk, df, symbol, i, balance, positions, trades,
                   equity_curve, signal, visible, result>>

(* what generate_signal may return over the data it read: no data, the      *)
(* consensus of the sources' opinions, or its own error result              *)
SignalOutcomes(data) ==
    IF data.n = 0 THEN { HoldSignal("No market data available") }
    ELSE { Aggregate(ops) : ops \in OpinionSeqs } \cup { HoldSignal("Error") }

(* a substitute that repeats a trading signal instead of the neutral one *)
RaisedAsBuy ==
    [action |-> "buy", confidence |-> One, reason |-> "", signals |-> NoVotes]

(* line 86: the signal substituted when generate_signal raises *)
RaisedSignal == HoldSignal("")

(* lines 83-86 *)
GenerateSignal(b) ==
    /\ pc[b] = "signal"
    /\ LET data == get_market_data(cache, symbol[b])
       IN  /\ visible' = [visible EXCEPT ![b] = <<data>>]
           /\ \E sig \in SignalOutcomes(data) \cup { RaisedSignal } :
                 signal' = [signal EXCEPT ![b] = <<sig>>]
    /\ pc' = [pc EXCEPT ![b] = "restore"]
    /\ UNCHANGED <<answers, unit, instances, risk, cache, df, symbol, i, balance, positions,
                   trades, equity_curve, old_cache, result>>

(* the step of line 89 without its assignment: the replaced cache is kept *)
RestoreCacheSkipped(b) ==
    /\ pc[b] = "restore"
    /\ pc' = [pc EXCEPT ![b] = "entry"]
    /\ UNCHANGED <<answers, unit, instances, risk, cache, df, symbol, i, balance, positions,
                   trades, equity_curve, old_cache, signal, visible, result>>

(* line 89 *)
RestoreCache(b) ==
    /\ pc[b] = "restore"
    /\ cache' = old_cache[b]
    /\ pc' = [pc EXCEPT ![b] = "entry"]
    /\ UNCHANGED <<answers, unit, instances, risk, df, symbol, i, balance, positions, trades,
                   equity_curve, old_cache, signal, visible, result>>

(* the entry attempt followed by the exit check, in the same step *)
EntryThenExitCheck(b) ==
    /\ pc[b] = "entry"
    /\ LET sig == signal[b][1]
           L == IF should_execute_trade(sig)
                THEN ExecuteTrade(Ledger(b), sig, symbol[b],
                                  CurrentPrice(b), CurrentTime(b), i[b])
                ELSE Ledger(b)
       IN  SetLedger(b, CheckExitConditions(L, CurrentPrice(b), CurrentTime(b)))
    /\ pc' = [pc EXCEPT ![b] = "equity"]
    /\ UNCHANGED <<answers, unit, instances, risk, cache, df, symbol, i, equity_curve,
                   old_cache, signal, visible, result>>

(* lines 92-93 *)
Entry(b) ==
    /\ pc[b] = "entry"
    /\ LET sig == signal[b][1]
       IN  IF should_execute_trade(sig)
           THEN SetLedger(b, ExecuteTrade(Ledger(b), sig, symbol[b],
                                          CurrentPrice(b), CurrentTime(b), i[b]))
           ELSE UNCHANGED <<balance, positions, trades>>
    /\ pc' = [pc EXCEPT ![b] = "equity"]
    /\ UNCHANGED <<answers, unit, instances, risk, cache, df, symbol, i, equity_curve,
                   old_cache, signal, visible, result>>

(* line 96 and the loop test of line 70 *)
UpdateEquity(b) ==
    /\ pc[b] = "equity"
    /\ equity_curve' = [equity_curve EXCEPT ![b] =
           Append(@, Equity(balance[b], positions[b], CurrentPrice(b)))]
    /\ i' = [i EXCEPT ![b] = @ + 1]
    /\ signal' = [signal EXCEPT ![b] = NoValue]
    /\ visible' = [visible EXCEPT ![b] = NoValue]
    /\ old_cache' = [old_cache EXCEPT ![b] = Cache0]
    /\ pc' = [pc EXCEPT ![b] = IF i[b] + 1 < df[b].n THEN "exit" ELSE "liquidate"]
    /\ UNCHANGED <<answers, unit, instances, risk, cache, df, symbol, balance, positions,
                   trades, result>>

(* lines 99-101 *)
Liquidate(b) ==
    /\ pc[b] = "liquidate"
    /\ LET last == Row(df[b], df[b].n - 1)
       IN  SetLedger(b, CloseRemaining(Ledger(b), 1, last.close, last.ts))
    /\ pc' = [pc EXCEPT ![b] = "metrics"]
    /\ UNCHANGED <<answers, unit, instances, risk, cache, df, symbol, i, equity_curve,
                   old_cache, signal, visible, result>>

(* lines 104-107 *)
Metrics(b) ==
    /\ pc[b] = "metrics"
    /\ result' = [result EXCEPT ![b] =
           Append(@, CalculateMetrics(trades[b], equity_curve[b]))]
    /\ pc' = [pc EXCEPT ![b] = "done"]
    /\ UNCHANGED <<answers, unit, instances, risk, cache, df, symbol, i, balance, positions,
                   trades, equity_curve, old_cache, signal, visible>>

Step ==
    \/ \E b \in instances : CheckExit(b)
    \/ \E b \in instances : SetCache(b)
    \/ \E b \in instances : GenerateSignal(b)
    \/ \E b \in instances : RestoreCache(b)
    \/ \E b \in instances : Entry(b)
    \/ \E b \in instances : UpdateEquity(b)
    \/ \E b \in instances : Liquidate(b)
    \/ \E b \in instances : Metrics(b)

Next ==
    \/ \E b \in instances : Start(b)
    \/ Step

Spec == Init /\ [][Next]_vars

-----------------------------------------------------------------------------
(* Two Backtester objects over one strategy, their run_backtest calls       *)
(* interleaved step by step                                                 *)

ConcBarSeqs ==
    { [n |-> Warmup + 1, tail |-> <<[ts |-> Warmup, close |-> p]>>] : p \in {R(1, 2), One} }

InitConc ==
    /\ instances = {1, 2}
    /\ risk \in RiskConfigs
    /\ cache = Cache0
    /\ pc = [b \in Insts |-> "idle"]
    /\ df = [b \in Insts |-> EmptyFrame]
    /\ symbol = [b \in Insts |-> "BTCIRT"]
    /\ i = [b \in Insts |-> 0]
    /\ balance = [b \in Insts |-> initial_balance]
    /\ positions = [b \in Insts |-> <<>>]
    /\ trades = [b \in Insts |-> <<>>]
    /\ equity_curve = [b \in Insts |-> <<initial_balance>>]
    /\ old_cache = [b \in Insts |-> Cache0]
    /\ signal = [b \in Insts |-> NoValue]
    /\ visible = [b \in Insts |-> NoValue]
    /\ result = [b \in Insts |-> NoValue]
    /\ answers = {}
    /\ unit = NoValue

StartConc(b) == StartOn(b, ConcBarSeqs, Symbols)

NextConc ==
    \/ \E b \in instances : StartConc(b)
    \/ Step

SpecConc == InitConc /\ [][NextConc]_vars

-----------------------------------------------------------------------------
(* One Backtester whose run_backtest is called again on the same bars, with *)
(* opinion sources that answer the same for the same market data            *)

MaxRuns == 2

(* the bars of a replayed run: positive closes, increasing timestamps *)
ReplayBarSeqs == { d \in BarSeqs : ~Malformed(d) }

(* the first call draws its bars, a later call is given the same ones *)
StartReplay(b) ==
    StartOn(b, IF result[b] = NoValue THEN ReplayBarSeqs ELSE {df[b]}, {symbol[b]})

(* lines 83-86 with deterministic sources: the first query over some market *)
(* data fixes the answer, a later query over the same data repeats it       *)
ReplaySignal(b) ==
    /\ pc[b] = "signal"
    /\ LET data == get_market_data(cache, symbol[b])
           given == { e \in answers : e.data = data }
       IN  /\ visible' = [visible EXCEPT ![b] = <<data>>]
           /\ \E sig \in IF given = {}
                          THEN SignalOutcomes(data) \cup { RaisedSignal }
                          ELSE { e.sig : e \in given } :
                 /\ signal' = [signal EXCEPT ![b] = <<sig>>]
                 /\ answers' = answers \cup { [data |-> data, sig |-> sig] }
    /\ pc' = [pc EXCEPT ![b] = "restore"]
    /\ UNCHANGED <<unit, instances, risk, cache, df, symbol, i, balance, positions,
                   trades, equity_curve, old_cache, result>>

(* run_backtest has returned and the caller is about to call it again *)
CallAgain(b) ==
    /\ pc[b] = "done"
    /\ Len(result[b]) < MaxRuns
    /\ pc' = [pc EXCEPT ![b] = "idle"]
    /\ UNCHANGED <<answers, unit, instances, risk, cache, df, symbol, i, balance,
                   positions, trades, equity_curve, old_cache, signal, visible, result>>

NextReplay ==
    \/ \E b \in instances : StartReplay(b)
    \/ \E b \in instances : CheckExit(b)
    \/ \E b \in instances : SetCache(b)
    \/ \E b \in instances : ReplaySignal(b)
    \/ \E b \in instances : RestoreCache(b)
    \/ \E b \in instances : Entry(b)
    \/ \E b \in instances : UpdateEquity(b)
    \/ \E b \in instances : Liquidate(b)
    \/ \E b \in instances : Metrics(b)
    \/ \E b \in instances : CallAgain(b)

SpecReplay == Init /\ [][NextReplay]_vars

-----------------------------------------------------------------------------
(* Longer runs over a market that holds its price or crashes: well-formed   *)
(* bars closing at 1 or at 0.1                                              *)

LongTail == 5

LongPrices == { One, R(1, 10) }

LongBarSeqs ==
    { [n |-> Warmup + LongTail,
       tail |-> [j \in 1..LongTail |-> [ts |-> Warmup + j - 1, close |-> pr[j]]]] :
        pr \in [1..LongTail -> LongPrices] }

StartLong(b) == StartOn(b, LongBarSeqs, {"BTCIRT"})

NextLong ==
    \/ \E b \in instances : StartLong(b)
    \/ Step

SpecLong == Init /\ [][NextLong]_vars

-----------------------------------------------------------------------------
(* Runs over a quiet market: well-formed bars closing at 1 or at 0.99, so   *)
(* that a position stays open across bars within its stop-loss and         *)
(* take-profit levels and is marked to market away from its entry price     *)

NearPrices == { One, R(99, 100) }

NearBarSeqs ==
    UNION { { [n |-> Warmup + k,
               tail |-> [j \in 1..k |-> [ts |-> Warmup + j - 1, close |-> pr[j]]]] :
                pr \in [1..k -> NearPrices] } : k \in 0..MaxTail }

StartNear(b) == StartOn(b, NearBarSeqs, {"BTCIRT"})

NextNear ==
    \/ \E b \in instances : StartNear(b)
    \/ Step

SpecNear == Init /\ [][NextNear]_vars

-----------------------------------------------------------------------------
(* A Backtester constructed over a strategy whose data fetcher has already  *)
(* cached market data (the strategy was queried before the backtest)        *)

CachedBefore ==
    { [key |-> "BTCIRT", data |-> [n |-> Warmup, tail |-> <<>>]],
      [key |-> "ETHIRT", data |-> [n |-> Warmup - 1, tail |-> <<>>]] }

InitCached ==
    /\ instances = {1}
    /\ risk \in RiskConfigs
    /\ cache = CachedBefore
    /\ pc = [b \in Insts |-> "idle"]
    /\ df = [b \in Insts |-> EmptyFrame]
    /\ symbol = [b \in Insts |-> "BTCIRT"]
    /\ i = [b \in Insts |-> 0]
    /\ balance = [b \in Insts |-> initial_balance]
    /\ positions = [b \in Insts |-> <<>>]
    /\ trades = [b \in Insts |-> <<>>]
    /\ equity_curve = [b \in Insts |-> <<initial_balance>>]
    /\ old_cache = [b \in Insts |-> Cache0]
    /\ signal = [b \in Insts |-> NoValue]
    /\ visible = [b \in Insts |-> NoValue]
    /\ result = [b \in Insts |-> NoValue]
    /\ answers = {}
    /\ unit = NoValue

StartCached(b) == StartOn(b, ReplayBarSeqs, Symbols)

NextCached ==
    \/ \E b \in instances : StartCached(b)
    \/ Step

SpecCached == InitCached /\ [][NextCached]_vars

-----------------------------------------------------------------------------
(* Direct calls of the pure functions of the strategy and the risk policy:  *)
(* a call draws its arguments and records them with what it returned        *)

MaxOps == 3

Opinions ==
    { Op(a, c) : a \in {"buy", "sell", "hold"},
                 c \in {Zero, R(1, 10), R(8, 10), R(9, 10)} }

AllOpinionSeqs == UNION { [1..k -> Opinions] : k \in 0..MaxOps }

(* signals as a caller may hand them to should_execute_trade, and the ones  *)
(* the aggregation produces                                                 *)
AnySignals ==
    { [action |-> a, confidence |-> c, reason |-> "", signals |-> NoVotes] :
        a \in {"buy", "sell", "hold"},
        c \in {Zero, R(1, 2), confidence_threshold, R(9, 10)} }

AggregatedSignals == { Aggregate(ops) : ops \in AllOpinionSeqs }

Balances == { Zero, One, R(3, 1), initial_balance }

RiskPercents == { None, Zero, R(1, 10), R(1, 5), R(1, 2), One }

UnitRiskConfigs ==
    RiskConfigs \cup
    { [stop_loss |-> R(3, 100), take_profit |-> R(5, 100), max_position_size |-> m] :
        m \in {R(1, 2), One} }

backtest_vars == <<instances, risk, cache, pc, df, symbol, i, balance, positions,
                   trades, equity_curve, old_cache, signal, visible, result, answers>>

InitUnit ==
    /\ instances = {}
    /\ risk \in UnitRiskConfigs
    /\ cache = Cache0
    /\ pc = [b \in Insts |-> "idle"]
    /\ df = [b \in Insts |-> EmptyFrame]
    /\ symbol = [b \in Insts |-> "BTCIRT"]
    /\ i = [b \in Insts |-> 0]
    /\ balance = [b \in Insts |-> initial_balance]
    /\ positions = [b \in Insts |-> <<>>]
    /\ trades = [b \in Insts |-> <<>>]
    /\ equity_curve = [b \in Insts |-> <<initial_balance>>]
    /\ old_cache = [b \in Insts |-> Cache0]
    /\ signal = [b \in Insts |-> NoValue]
    /\ visible = [b \in Insts |-> NoValue]
    /\ result = [b \in Insts |-> NoValue]
    /\ answers = {}
    /\ unit = NoValue

(* generate_signal's aggregation over a list of opinions; the consensus is  *)
(* the value of (action, signal_strength) after line 140                    *)
CallAggregate ==
    /\ unit = NoValue
    /\ \E ops \in AllOpinionSeqs :
          unit' = [op |-> "aggregate", ops |-> ops,
                   consensus |-> IF ops = <<>> THEN NoValue ELSE Consensus(ops),
                   ret |-> Aggregate(ops)]
    /\ UNCHANGED backtest_vars

CallShouldExecute ==
    /\ unit = NoValue
    /\ \E sig \in AnySignals \cup AggregatedSignals :
          unit' = [op |-> "should_execute_trade", sig |-> sig,
                   ret |-> should_execute_trade(sig)]
    /\ UNCHANGED backtest_vars

CallPositionSize ==
    /\ unit = NoValue
    /\ \E bal \in Balances, price \in Prices, f \in RiskPercents :
          unit' = [op |-> "calculate_position_size", balance |-> bal,
                   price |-> price, risk_percent |-> f,
                   ret |-> calculate_position_size(bal, price, f)]
    /\ UNCHANGED backtest_vars

Amounts == { Zero, R(1, 5), One, R(2, 1), R(200, 1) }

CallValidateOrder ==
    /\ unit = NoValue
    /\ \E side \in {"buy", "sell"}, amount \in Amounts, price \in Prices,
          bal \in Balances :
          unit' = [op |-> "validate_order", side |-> side, amount |-> amount,
                   price |-> price, balance |-> bal,
                   ret |-> validate_order(side, amount, price, bal)]
    /\ UNCHANGED backtest_vars

EntryPrices == { One, Hundred }

CurrentPrices ==
    { One, R(94, 1), R(95, 1), R(96, 1), R(97, 1), Hundred, R(103, 1), R(105, 1),
      R(106, 1) }

CallCheckStopLoss ==
    /\ unit = NoValue
    /\ \E entry \in EntryPrices, current \in CurrentPrices, side \in {"buy", "sell"} :
          unit' = [op |-> "check_stop_loss", entry_price |-> entry,
                   current_price |-> current, side |-> side,
                   ret |-> check_stop_loss(entry, current, side)]
    /\ UNCHANGED backtest_vars

CallCheckTakeProfit ==
    /\ unit = NoValue
    /\ \E entry \in EntryPrices, current \in CurrentPrices, side \in {"buy", "sell"} :
          unit' = [op |-> "check_take_profit", entry_price |-> entry,
                   current_price |-> current, side |-> side,
                   ret |-> check_take_profit(entry, current, side)]
    /\ UNCHANGED backtest_vars

MaxTrades == 3

(* closed trades as _calculate_metrics reads them: by their pnl *)
TradePnls == { R(-1, 1), Zero, One, R(2, 1) }

TradeLists ==
    UNION { [1..k -> { [pnl |-> x] : x \in TradePnls }] : k \in 0..MaxTrades }

EquityCurves ==
    { <<initial_balance>>, <<initial_balance, R(900, 1), R(1100, 1)>> }

CallCalculateMetrics ==
    /\ unit = NoValue
    /\ \E ts \in TradeLists, eq \in EquityCurves :
          unit' = [op |-> "calculate_metrics", trades |-> ts, equity_curve |-> eq,
                   ret |-> CalculateMetrics(ts, eq)]
    /\ UNCHANGED backtest_vars

MaxOpen == 2

(* the k-th open position of a ledger, opened at bar Warmup + k - 1 *)
OpenPosition(k, side, entry) ==
    [id |-> k, symbol |-> "BTCIRT", side |-> side, entry_price |-> entry,
     amount |-> One, entry_time |-> Warmup + k - 1,
     stop_loss |-> calculate_stop_loss_price(entry, side),
     take_profit |-> calculate_take_profit_price(entry, side),
     signal |-> Aggregate(<<Op(side, R(9, 10)), Op(side, R(8, 10))>>),
     bar |-> Warmup + k - 1]

OpenLedgers ==
    UNION { { [balance |-> initial_balance,
               positions |-> [k \in 1..n |-> OpenPosition(k, side[k], entry[k])],
               trades |-> <<>>] :
                 side \in [1..n -> {"buy", "sell"}], entry \in [1..n -> EntryPrices] } :
            n \in 0..MaxOpen }

CallCheckExitConditions ==
    /\ unit = NoValue
    /\ \E L \in OpenLedgers, current \in CurrentPrices :
          unit' = [op |-> "check_exit_conditions", ledger |-> L,
                   current_price |-> current, timestamp |-> Warmup + MaxOpen,
                   ret |-> CheckExitConditions(L, current, Warmup + MaxOpen)]
    /\ UNCHANGED backtest_vars

NextUnit ==
    \/ CallCheckExitConditions
    \/ CallCalculateMetrics
    \/ CallAggregate
    \/ CallShouldExecute
    \/ CallPositionSize
    \/ CallValidateOrder
    \/ CallCheckStopLoss
    \/ CallCheckTakeProfit

SpecUnit == InitUnit /\ [][NextUnit]_vars

(* the last direct call was one of the function named *)
Called(f) == unit # NoValue /\ unit.op = f

-----------------------------------------------------------------------------
(* TradingService: one pass of the loop of start over one trading pair.     *)
(* What the exchange manager and the strategy answer is an input of the     *)
(* pass: a returned value or a raised exception.                            *)

Raise == [ok |-> FALSE, value |-> NoValue]
Return(v) == [ok |-> TRUE, value |-> v]

OpenOrderLists == { Raise, Return(<<>>), Return(<<[id |-> 1]>>) }

SignalResults == { Raise } \cup { Return(s) : s \in AnySignals }

(* get_ticker: a ticker with a last price, one without, or an exception *)
Tickers ==
    { Raise, Return([bid |-> One]) } \cup { Return([last |-> p]) : p \in Prices }

(* get_balance: the amounts held of the pair's quote and base currency *)
Wallets ==
    { Raise } \cup { Return([quote |-> q, base |-> a]) :
                        q \in {Zero, initial_balance}, a \in {Zero, R(3, 1)} }

(* ticker.get('last', 0) *)
TickerLast(t) == IF "last" \in DOMAIN t THEN t.last ELSE Zero

(* execute_trade: the orders handed to place_order; an exception raised by  *)
(* get_ticker or get_balance is caught by line 155                          *)
execute_trade(sym, sig, ticker, wallet) ==
    IF ~ticker.ok THEN <<>>
    ELSE LET current_price == TickerLast(ticker.value)
         IN  IF current_price = Zero THEN <<>>
             ELSE IF ~wallet.ok THEN <<>>
             ELSE LET available_balance == IF sig.action = "buy"
                                           THEN wallet.value.quote
                                           ELSE wallet.value.base
                      amount == calculate_position_size(available_balance,
                                                        current_price, None)
                      validation == validate_order(sig.action, amount, current_price,
                                                   available_balance)
                  IN  IF RLeq(amount, Zero) THEN <<>>
                      ELSE IF ~validation.valid THEN <<>>
                      ELSE << [symbol |-> sym, side |-> sig.action,
                               amount |-> amount, price |-> None] >>

(* a pass that goes on to the signal while the pair has open orders *)
ProcessPairWhileOpen(sym, open_orders, sig, ticker, wallet) ==
    IF ~open_orders.ok THEN [generated |-> FALSE, orders |-> <<>>]
    ELSE IF ~sig.ok THEN [generated |-> TRUE, orders |-> <<>>]
    ELSE IF sig.value.action = "hold" THEN [generated |-> TRUE, orders |-> <<>>]
    ELSE IF ~should_execute_trade(sig.value) THEN [generated |-> TRUE, orders |-> <<>>]
    ELSE [generated |-> TRUE, orders |-> execute_trade(sym, sig.value, ticker, wallet)]

(* process_pair: whether generate_signal was called, and the orders placed; *)
(* an exception of get_open_orders or generate_signal leaves process_pair   *)
(* and is caught by line 62                                                 *)
process_pair(sym, open_orders, sig, ticker, wallet) ==
    IF ~open_orders.ok THEN [generated |-> FALSE, orders |-> <<>>]
    ELSE IF open_orders.value # <<>> THEN [generated |-> FALSE, orders |-> <<>>]
    ELSE IF ~sig.ok THEN [generated |-> TRUE, orders |-> <<>>]
    ELSE IF sig.value.action = "hold" THEN [generated |-> TRUE, orders |-> <<>>]
    ELSE IF ~should_execute_trade(sig.value) THEN [generated |-> TRUE, orders |-> <<>>]
    ELSE [generated |-> TRUE, orders |-> execute_trade(sym, sig.value, ticker, wallet)]

(* start, lines 53-56: trading is disabled, the pass sleeps *)
ServiceDisabled ==
    /\ unit = NoValue
    /\ unit' = [op |-> "start", trading_enabled |-> FALSE,
                ret |-> [generated |-> FALSE, orders |-> <<>>]]
    /\ UNCHANGED backtest_vars

(* start, lines 53-63: trading is enabled, the pair is processed *)
ServiceProcessPair ==
    /\ unit = NoValue
    /\ \E sym \in Symbols, open_orders \in OpenOrderLists, sig \in SignalResults,
          ticker \in Tickers, wallet \in Wallets :
          unit' = [op |-> "process_pair", trading_enabled |-> TRUE, symbol |-> sym,
                   open_orders |-> open_orders, signal |-> sig, ticker |-> ticker,
                   wallet |-> wallet,
                   ret |-> process_pair(sym, open_orders, sig, ticker, wallet)]
    /\ UNCHANGED backtest_vars

NextLive ==
    \/ ServiceDisabled
    \/ ServiceProcessPair

SpecLive == InitUnit /\ [][NextLive]_vars

-----------------------------------------------------------------------------
(* utils.helpers.retry: one call of a wrapped function, an iteration of the *)
(* wrapper's loop at a time.  unit holds the wrapper's locals, the log of   *)
(* what it did (invocations of the function and sleeps, in order) and how   *)
(* the call ended.                                                          *)

MaxAttempts == 3

Raised(e) == [ok |-> FALSE, value |-> e]

(* what one invocation of the wrapped function does *)
FuncOutcomes == { Return("a"), Return("b"), Raised("e1"), Raised("e2") }

Delays == { One, R(1, 2) }

Backoffs == { One, R(2, 1) }

Invocation(outcome) == [kind |-> "call", out |-> outcome]
Sleep(duration) == [kind |-> "sleep", out |-> duration]

(* lines 24-26: the wrapper is entered *)
RetryCall ==
    /\ unit = NoValue
    /\ \E n \in 0..MaxAttempts, d \in Delays, bk \in Backoffs :
          unit' = [op |-> "retry", max_attempts |-> n, delay |-> d, backoff |-> bk,
                   attempt |-> 0, current_delay |-> d, log |-> <<>>,
                   status |-> "loop", ret |-> NoValue]
    /\ UNCHANGED backtest_vars

(* an iteration that gives up one failure later: attempt > max_attempts *)
RetryIterationOneMore ==
    /\ unit # NoValue /\ unit.op = "retry" /\ unit.status = "loop"
    /\ unit.attempt < unit.max_attempts + 1
    /\ \E outcome \in FuncOutcomes :
          LET attempt == unit.attempt + 1
          IN  unit' =
                IF outcome.ok
                THEN [unit EXCEPT !.log = Append(@, Invocation(outcome)),
                                  !.status = "returned", !.ret = outcome]
                ELSE IF attempt > unit.max_attempts
                THEN [unit EXCEPT !.log = Append(@, Invocation(outcome)),
                                  !.attempt = attempt,
                                  !.status = "raised", !.ret = outcome]
                ELSE [unit EXCEPT !.log = Append(Append(@, Invocation(outcome)),
                                                 Sleep(unit.current_delay)),
                                  !.attempt = attempt,
                                  !.current_delay = RMul(@, unit.backoff)]
    /\ UNCHANGED backtest_vars

(* lines 28-39: the loop test and one iteration of the loop *)
RetryIteration ==
    /\ unit # NoValue /\ unit.op = "retry" /\ unit.status = "loop"
    /\ unit.attempt < unit.max_attempts
    /\ \E outcome \in FuncOutcomes :
          LET attempt == unit.attempt + 1
          IN  unit' =
                IF outcome.ok
                THEN [unit EXCEPT !.log = Append(@, Invocation(outcome)),
                                  !.status = "returned", !.ret = outcome]
                ELSE IF attempt >= unit.max_attempts
                THEN [unit EXCEPT !.log = Append(@, Invocation(outcome)),
                                  !.attempt = attempt,
                                  !.status = "raised", !.ret = outcome]
                ELSE [unit EXCEPT !.log = Append(Append(@, Invocation(outcome)),
                                                 Sleep(unit.current_delay)),
                                  !.attempt = attempt,
                                  !.current_delay = RMul(@, unit.backoff)]
    /\ UNCHANGED backtest_vars

(* lines 28, 41: the loop test fails, the wrapper returns None *)
RetryReturnNone ==
    /\ unit # NoValue /\ unit.op = "retry" /\ unit.status = "loop"
    /\ ~(unit.attempt < unit.max_attempts)
    /\ unit' = [unit EXCEPT !.status = "returned", !.ret = Return(None)]
    /\ UNCHANGED backtest_vars

NextRetry ==
    \/ RetryCall
    \/ RetryIteration
    \/ RetryReturnNone

SpecRetry == InitUnit /\ [][NextRetry]_vars

-----------------------------------------------------------------------------
(* Helpers of the properties *)

LastRow(b) == Row(df[b], df[b].n - 1)

Range(sq) == { sq[k] : k \in 1..Len(sq) }

(* the trades a step appended to trades[b] *)
NewTrades(b) ==
    IF Len(trades'[b]) > Len(trades[b])
    THEN SubSeq(trades'[b], Len(trades[b]) + 1, Len(trades'[b]))
    ELSE <<>>

TradesOfBar(ts, bar) == SelectSeq(ts, LAMBDA t : t.bar = bar)

-----------------------------------------------------------------------------
(* C1. Forced liquidation (on well-formed input): the step that closes the  *)
(* remaining positions after the last bar leaves no position open, and      *)
(* every position that was open before it has exactly one trade, closed at  *)
(* the last bar's close price and timestamp.                                *)
C1_ForcedLiquidation ==
    [][\A b \in instances :
        (pc[b] = "liquidate" /\ pc'[b] = "metrics" /\ ~Malformed(df[b])) =>
            /\ positions'[b] = <<>>
            /\ \A p \in Range(positions[b]) :
                /\ Len(TradesOfBar(trades'[b], p.bar)) = 1
                /\ \A t \in Range(TradesOfBar(trades'[b], p.bar)) :
                    /\ t.exit_price = LastRow(b).close
                    /\ t.exit_time = LastRow(b).ts]_vars

(* C2. Balance conservation: whenever a started run over well-formed input  *)
(* has no open position, its balance is the initial balance plus the pnl of *)
(* its closed trades.                                                       *)
C2_BalanceConservation ==
    \A b \in instances :
        (pc[b] # "idle" /\ df[b].n >= Warmup /\ ~Malformed(df[b]) /\ positions[b] = <<>>) =>
            balance[b] = RAdd(initial_balance, SumPnl(trades[b]))

(* what one step may do to the positions and trades of run b *)
C3_LifecycleStep(b) ==
    /\ \A t \in Range(NewTrades(b)) :
        /\ \E p \in Range(positions[b]) : p.bar = t.bar /\ p.amount = t.amount
        /\ \A p \in Range(positions'[b]) : p.bar # t.bar
        /\ Len(TradesOfBar(trades'[b], t.bar)) = 1
    /\ pc[b] # "idle" => SubSeq(trades'[b], 1, Len(trades[b])) = trades[b]
    /\ \A p \in Range(positions'[b]) :
        /\ \A t \in Range(trades'[b]) : t.bar # p.bar
        /\ \/ p \in Range(positions[b])
           \/ pc[b] = "entry" /\ p.bar = i[b]
    /\ (pc'[b] = "done" /\ ~Malformed(df'[b])) => positions'[b] = <<>>

(* C3. Position lifecycle: a trade is appended only for a position that was *)
(* open, with that position's amount, once, and the position leaves the     *)
(* open set; an open position is never also a trade; the trade log is only  *)
(* appended to; a position that is open after a step was open before it or  *)
(* was created at the current bar; and when a run over well-formed input    *)
(* returns, every created position has been closed.                         *)
C3_PositionLifecycle == [][\A b \in instances : C3_LifecycleStep(b)]_vars

(* C4. Equity-curve length of the result: a run over n >= Warmup            *)
(* well-formed bars returns an equity_curve of (n - Warmup) + 1 entries.    *)
C4_ResultEquityLength ==
    \A b \in instances :
        (pc[b] = "done" /\ df[b].n >= Warmup /\ ~Malformed(df[b])) =>
            Len(result[b][1].equity_curve) = (df[b].n - Warmup) + 1

(* C5. Malformed input is rejected: run_backtest returns no result for a    *)
(* bar sequence with a non-positive close or non-increasing timestamps.     *)
C5_MalformedRejected ==
    \A b \in instances : pc[b] = "done" => ~Malformed(df[b])

(* C6. Run isolation: while a run queries the opinion sources at bar i, the *)
(* data the strategy's data fetcher holds is that run's bars[0..i] under    *)
(* that run's symbol, whatever another run does meanwhile.                  *)
C6_RunIsolation ==
    \A b \in instances :
        pc[b] = "signal" => cache = { [key |-> symbol[b], data |-> Slice(df[b], i[b] + 1)] }

(* the successive positions of run_backtest, and what one step may do *)
AllowedPc ==
    { <<"idle", "exit">>, <<"idle", "liquidate">>, <<"idle", "done">>,
      <<"exit", "setcache">>, <<"setcache", "signal">>, <<"signal", "restore">>,
      <<"restore", "entry">>, <<"entry", "equity">>, <<"equity", "exit">>,
      <<"equity", "liquidate">>, <<"liquidate", "metrics">>, <<"metrics", "done">> }

C7_OrderStep(b) ==
    /\ pc'[b] # pc[b] => <<pc[b], pc'[b]>> \in AllowedPc
    /\ (pc[b] = "idle" /\ pc'[b] \in {"exit", "liquidate"}) => i'[b] = Warmup
    /\ (pc[b] = "equity" /\ pc'[b] # pc[b]) => i'[b] = i[b] + 1
    /\ pc[b] \notin {"idle", "equity"} => i'[b] = i[b]
    /\ pc'[b] = "exit" => i'[b] < df'[b].n
    /\ pc'[b] = "liquidate" => i'[b] = df'[b].n
    /\ trades'[b] # trades[b] => pc[b] \in {"idle", "exit", "liquidate"}
    /\ positions'[b] # positions[b] => pc[b] \in {"idle", "exit", "entry", "liquidate"}
    /\ Len(positions'[b]) > Len(positions[b]) => pc[b] = "entry"
    /\ equity_curve'[b] # equity_curve[b] => pc[b] \in {"idle", "equity"}
    /\ (pc[b] = "equity" /\ pc'[b] # pc[b]) =>
          equity_curve'[b] =
              Append(equity_curve[b], Equity(balance[b], positions[b], CurrentPrice(b)))
    /\ pc[b] = "exit" => \A t \in Range(NewTrades(b)) : t.bar < i[b]

(* C7. Fixed step order: every run goes through the steps of run_backtest   *)
(* in the order exit check, cache set, signal query, cache restore, entry   *)
(* attempt, equity snapshot; the loop index starts at Warmup, advances by   *)
(* one after each snapshot and the loop ends when it reaches the number of  *)
(* bars; trades are appended only by the exit check and the liquidation,    *)
(* positions only by the entry attempt; the exit check of bar i closes only *)
(* positions opened at earlier bars; and the snapshot of bar i is the       *)
(* equity of the ledger as the exit check and the entry of bar i left it.   *)
C7_StepOrder == [][\A b \in instances : C7_OrderStep(b)]_vars

(* a position opened at the bar being processed whose exit condition holds  *)
(* at that bar's close is still open when the bar's snapshot is taken       *)
C7_Witness ==
    \E b \in instances :
        /\ pc[b] = "equity"
        /\ \E p \in Range(positions[b]) :
              p.bar = i[b] /\ Triggered(p, CurrentPrice(b))

(* C8. No look-ahead: the market data a signal query of bar i reads is      *)
(* bars[0..i]: i+1 rows, each the row of the run's data frame, and nothing  *)
(* of a later bar; the cache holds no other data during the query.          *)
C8_NoLookAhead ==
    \A b \in instances :
        /\ visible[b] # NoValue =>
              LET h == visible[b][1]
              IN  /\ h.n = i[b] + 1
                  /\ Len(h.tail) = i[b] + 1 - Warmup
                  /\ \A k \in 0..i[b] : Row(h, k) = Row(df[b], k)
        /\ pc[b] = "signal" => \A e \in cache : e.data.n = i[b] + 1

(* a query was made at a bar that is not the last one *)
C8_Witness ==
    \E b \in instances :
        /\ visible[b] # NoValue
        /\ visible[b][1].n > Warmup
        /\ i[b] + 1 < df[b].n
        /\ Row(df[b], i[b] + 1) # Row(df[b], i[b])

(* both exit conditions hold; the credit of closing each triggered position once *)
BothTriggered(p, price) ==
    /\ check_stop_loss(p.entry_price, price, p.side)
    /\ check_take_profit(p.entry_price, price, p.side)

RECURSIVE CreditOnce(_, _)
CreditOnce(ps, price) ==
    IF ps = <<>> THEN Zero
    ELSE LET p == Head(ps)
             pnl == IF p.side = "buy"
                    THEN RMul(RSub(price, p.entry_price), p.amount)
                    ELSE RMul(RSub(p.entry_price, price), p.amount)
         IN  RAdd(IF Triggered(p, price)
                  THEN RAdd(RMul(p.amount, price), pnl) ELSE Zero,
                  CreditOnce(Tail(ps), price))

C9_ExitStep(b) ==
    (pc[b] = "exit" /\ pc'[b] = "setcache") =>
        LET price == CurrentPrice(b)
            hit == SelectSeq(positions[b], LAMBDA p : Triggered(p, price))
        IN  /\ \A p \in Range(positions[b]) :
                  BothTriggered(p, price) =>
                      /\ Len(TradesOfBar(trades'[b], p.bar)) = 1
                      /\ \A q \in Range(positions'[b]) : q.bar # p.bar
            /\ Len(trades'[b]) = Len(trades[b]) + Len(hit)
            /\ balance'[b] = RAdd(balance[b], CreditOnce(positions[b], price))

(* C9. Simultaneous triggers are one close: the exit check closes a         *)
(* position whose stop-loss and take-profit conditions both hold once: one  *)
(* trade for it, the position no longer open, as many trades appended as    *)
(* positions triggered, and the balance credited once per closed position.  *)
C9_SimultaneousOnce == [][\A b \in instances : C9_ExitStep(b)]_vars

(* the exit check has just closed a position for which both conditions held *)
C9_Witness ==
    \E b \in instances :
        /\ pc[b] = "setcache"
        /\ trades[b] # <<>>
        /\ LET t == trades[b][Len(trades[b])]
           IN  /\ t.bar < i[b]
               /\ t.exit_price = CurrentPrice(b)
               /\ t.exit_time = CurrentTime(b)
               /\ check_stop_loss(t.entry_price, t.exit_price, t.side)
               /\ check_take_profit(t.entry_price, t.exit_price, t.side)
               /\ \A p \in Range(positions[b]) : p.bar # t.bar

(* amount*exit_price + pnl summed over trades; what a step appending trades does *)
RECURSIVE CloseCredits(_)
CloseCredits(ts) ==
    IF ts = <<>> THEN Zero
    ELSE RAdd(RAdd(RMul(Head(ts).amount, Head(ts).exit_price), Head(ts).pnl),
              CloseCredits(Tail(ts)))

C10_CloseStep(b) ==
    /\ \A t \in Range(NewTrades(b)) :
        /\ t.side = "buy" =>
              t.pnl = RMul(RSub(t.exit_price, t.entry_price), t.amount)
        /\ t.side # "buy" =>
              t.pnl = RMul(RSub(t.entry_price, t.exit_price), t.amount)
        /\ (RLt(Zero, t.entry_price) /\ RLt(Zero, t.amount)) =>
              /\ t.pnl_pct = RMul(RDiv(t.pnl, RMul(t.entry_price, t.amount)), Hundred)
              /\ Sign(t.pnl_pct) = Sign(t.pnl)
    /\ NewTrades(b) # <<>> =>
          balance'[b] = RAdd(balance[b], CloseCredits(NewTrades(b)))

(* C10. Close accounting: every trade a step appends has                    *)
(* pnl = (exit - entry)*amount for buy and (entry - exit)*amount for sell   *)
(* and, for positive entry price and amount, pnl_pct = pnl/(entry*amount)   *)
(* *100 with the sign of pnl; and the step adds amount*exit_price + pnl of  *)
(* each appended trade to the balance.                                      *)
C10_CloseAccounting == [][\A b \in instances : C10_CloseStep(b)]_vars

(* a sell position opened at a positive price was closed at a loss *)
C10_Witness ==
    \E b \in instances :
        \E t \in Range(trades[b]) :
            /\ t.side = "sell" /\ RLt(Zero, t.entry_price) /\ RLt(Zero, t.amount)
            /\ Sign(t.pnl) = -1 /\ Sign(t.pnl_pct) = -1

-----------------------------------------------------------------------------
(* the entry attempt of the bar being processed: the size the risk policy   *)
(* gives, its cost at the fill price, and whether the attempt is aborted    *)
AttemptSize(b) == calculate_position_size(balance[b], CurrentPrice(b), None)

AttemptCost(b) == RMul(AttemptSize(b), CurrentPrice(b))

AttemptAborted(b) ==
    \/ RLeq(AttemptSize(b), Zero)
    \/ RLt(balance[b], AttemptCost(b))
    \/ ~validate_order(signal[b][1].action, AttemptSize(b),
                       CurrentPrice(b), balance[b]).valid

C11_EntryStep(b) ==
    (pc[b] = "entry" /\ pc'[b] # "entry" /\ should_execute_trade(signal[b][1])) =>
        /\ pc'[b] = "equity"
        /\ i'[b] = i[b]
        /\ trades'[b] = trades[b]
        /\ IF AttemptAborted(b)
           THEN /\ balance'[b] = balance[b]
                /\ positions'[b] = positions[b]
           ELSE /\ balance'[b] = RSub(balance[b], AttemptCost(b))
                /\ Len(positions'[b]) = Len(positions[b]) + 1
                /\ SubSeq(positions'[b], 1, Len(positions[b])) = positions[b]
                /\ LET p == positions'[b][Len(positions'[b])]
                       side == signal[b][1].action
                   IN  /\ p.side = side
                       /\ p.entry_price = CurrentPrice(b)
                       /\ p.amount = AttemptSize(b)
                       /\ p.stop_loss =
                              RMul(CurrentPrice(b),
                                   IF side = "buy" THEN RSub(One, risk.stop_loss)
                                   ELSE RAdd(One, risk.stop_loss))
                       /\ p.take_profit =
                              RMul(CurrentPrice(b),
                                   IF side = "buy" THEN RAdd(One, risk.take_profit)
                                   ELSE RSub(One, risk.take_profit))

-----------------------------------------------------------------------------
(* the signal of the bar being processed stands for a failed query: the     *)
(* substitute of run_backtest (empty reason) or generate_signal's own       *)
(* error result                                                             *)
QueryFailed(sig) == sig # NoValue /\ sig[1].reason \in {"", "Error"}

C12_FailStep(b) ==
    /\ (pc[b] = "signal" /\ pc'[b] # "signal" /\ QueryFailed(signal'[b])) =>
            /\ signal'[b][1].action = "hold"
            /\ signal'[b][1].confidence = Zero
            /\ pc'[b] = "restore"
    /\ (pc[b] = "entry" /\ pc'[b] # "entry" /\ QueryFailed(signal[b])) =>
            /\ positions'[b] = positions[b]
            /\ balance'[b] = balance[b]
            /\ trades'[b] = trades[b]
            /\ pc'[b] = "equity"
    /\ (pc[b] = "equity" /\ pc'[b] # "equity" /\ QueryFailed(signal[b])) =>
            /\ equity_curve'[b] =
                   Append(equity_curve[b],
                          Equity(balance[b], positions[b], CurrentPrice(b)))
            /\ i'[b] = i[b] + 1
            /\ trades'[b] = trades[b]
            /\ pc'[b] = IF i[b] + 1 < df[b].n THEN "exit" ELSE "liquidate"
    /\ (pc[b] = "metrics" /\ pc'[b] # "metrics") =>
            /\ pc'[b] = "done"
            /\ Len(equity_curve[b]) = df[b].n - Warmup + 1
            /\ result'[b][Len(result'[b])].total_trades = Len(trades[b])

(* C12. Degraded opinion source: when the signal query fails at bar i the   *)
(* bar is treated as a Hold of confidence 0: no position is opened at bar   *)
(* i, the bar's exit checks and equity snapshot still happen, and the run   *)
(* continues with bar i+1 and returns a result that has a snapshot of every *)
(* bar and counts every trade (the failure neither aborts the run nor       *)
(* discards its trades).                                                    *)
C12_DegradedSource == [][\A b \in instances : C12_FailStep(b)]_vars

(* the query of a bar failed after the bar's exit check closed the position *)
(* opened at the bar before; the bar's snapshot is about to be taken        *)
C12_Witness ==
    \E b \in instances :
        /\ pc[b] = "equity"
        /\ QueryFailed(signal[b])
        /\ positions[b] = <<>>
        /\ \E t \in Range(trades[b]) : t.exit_time = CurrentTime(b) /\ t.bar < i[b]

-----------------------------------------------------------------------------
(* C13. Insufficient data: a run over fewer bars than the warmup length     *)
(* (the empty sequence included) returns, without processing a bar, a       *)
(* zero-valued result: zero trades, every performance metric 0,             *)
(* final_balance = initial_balance and equity_curve = [initial_balance].    *)
C13_InsufficientData ==
    \A b \in instances :
        (pc[b] = "done" /\ df[b].n < Warmup) =>
            LET r == result[b][Len(result[b])]
            IN  /\ r.total_trades = 0 /\ r.winning_trades = 0 /\ r.losing_trades = 0
                /\ r.trades = <<>>
                /\ r.total_return = Zero /\ r.total_pnl = Zero
                /\ r.win_rate = Zero /\ r.avg_win = Zero /\ r.avg_loss = Zero
                /\ r.profit_factor = Zero /\ r.max_drawdown = Zero
                /\ r.sharpe_ratio = Zero
                /\ r.initial_balance = R(InitialBalance, 1)
                /\ r.final_balance = R(InitialBalance, 1)
                /\ r.equity_curve = <<R(InitialBalance, 1)>>
                /\ i[b] = 0

(* a run over a non-empty sequence one bar short of the warmup has returned *)
C13_Witness ==
    \E b \in instances :
        pc[b] = "done" /\ df[b].n = Warmup - 1 /\ result[b] # NoValue

-----------------------------------------------------------------------------
(* C14. Deterministic replay: calling run_backtest again on the same        *)
(* Backtester with the same bars and opinion sources that answer the same   *)
(* for the same history returns an identical result; the state left by an   *)
(* earlier call has no effect on a later one.                               *)
C14_DeterministicReplay ==
    \A b \in instances :
        \A j, k \in 1..Len(result[b]) : result[b][j] = result[b][k]

(* the second call has returned a result with trades in it, and the ledger  *)
(* it leaves still holds a position                                         *)
C14_Witness ==
    \E b \in instances :
        /\ pc[b] = "done"
        /\ Len(result[b]) = 2
        /\ result[b][2].total_trades > 0
        /\ positions[b] # <<>>

-----------------------------------------------------------------------------
(* the mean of the opinions' confidences, and the actions with strictly     *)
(* more votes than each of the other two (one action or none)               *)
MeanConfidence(ops) == RDiv(SumConf(ops), R(Len(ops), 1))

StrictPlurality(ops) ==
    { a \in {"buy", "sell", "hold"} :
        \A o \in {"buy", "sell", "hold"} \ {a} : Count(ops, a) > Count(ops, o) }

-----------------------------------------------------------------------------
-----------------------------------------------------------------------------
(* C17. Threshold demotes but preserves confidence: final_confidence =      *)
(* mean(confidences) * signal_strength; when it is below the threshold the  *)
(* Signal's action is Hold and its confidence is still final_confidence;    *)
(* when it is at or above the threshold the plurality action is kept. E.g.  *)
(* [{Buy,0.9},{Buy,0.8},{Hold,0.1}] gives Hold with confidence 0.4.         *)
C17_ThresholdDemotes ==
    (Called("aggregate") /\ unit.ops # <<>>) =>
        LET final_confidence ==
                RMul(MeanConfidence(unit.ops), unit.consensus.signal_strength)
        IN  /\ unit.ret.confidence = final_confidence
            /\ unit.ret.action =
                   IF RLt(final_confidence, confidence_threshold) THEN "hold"
                   ELSE unit.consensus.action

(* the example: two Buy opinions and a weak Hold are demoted to Hold, 0.4 *)
C17_Witness ==
    /\ Called("aggregate")
    /\ unit.ops = <<Op("buy", R(9, 10)), Op("buy", R(8, 10)), Op("hold", R(1, 10))>>
    /\ unit.consensus.action = "buy"
    /\ unit.ret.action = "hold"
    /\ unit.ret.confidence = R(2, 5)

-----------------------------------------------------------------------------
(* C18. should_execute agrees with the aggregation: should_execute(signal)  *)
(* is true exactly when the action is not Hold and the confidence is at or  *)
(* above the threshold; for every Signal the aggregation produces with the  *)
(* same threshold, should_execute is true iff the action is Buy or Sell.    *)
C18_ShouldExecuteAgrees ==
    Called("should_execute_trade") =>
        /\ unit.ret = (/\ unit.sig.action # "hold"
                       /\ RLeq(confidence_threshold, unit.sig.confidence))
        /\ unit.sig \in AggregatedSignals =>
               (unit.ret = (unit.sig.action \in {"buy", "sell"}))

(* should_execute_trade was asked about a Sell that the aggregation         *)
(* produced and said yes                                                    *)
C18_Witness ==
    /\ Called("should_execute_trade")
    /\ unit.sig \in AggregatedSignals
    /\ unit.sig.action = "sell"
    /\ RLeq(confidence_threshold, unit.sig.confidence)
    /\ unit.ret = TRUE

-----------------------------------------------------------------------------
(* C19. Position size never exceeds the cap: for every balance >= 0, every  *)
(* price and every risk fraction f (omitted, 0, or greater than the cap),   *)
(* position_size(balance, price, f) <= balance * max_position_fraction.     *)
C19_SizeWithinCap ==
    (Called("calculate_position_size") /\ RLeq(Zero, unit.balance)) =>
        RLeq(unit.ret, RMul(unit.balance, risk.max_position_size))

(* a call with a fraction above the cap returned the capped size *)
C19_Witness ==
    /\ Called("calculate_position_size")
    /\ unit.risk_percent # None
    /\ RLt(risk.max_position_size, unit.risk_percent)
    /\ RLt(Zero, unit.balance)
    /\ unit.ret = RMul(unit.balance, risk.max_position_size)

-----------------------------------------------------------------------------
(* C20. An explicit risk fraction is honoured: for every explicitly         *)
(* supplied f with 0 <= f <= 1, position_size = min(balance * f, balance *  *)
(* max_position_fraction), so a supplied f = 0 yields size 0; the cap is    *)
(* used in place of f only when f is not supplied.                          *)
C20_ExplicitFraction ==
    (/\ Called("calculate_position_size")
     /\ unit.risk_percent # None
     /\ RLeq(Zero, unit.risk_percent) /\ RLeq(unit.risk_percent, One)) =>
        unit.ret = RMin(RMul(unit.balance, unit.risk_percent),
                        RMul(unit.balance, risk.max_position_size))

-----------------------------------------------------------------------------
(* C21. Sizing is in base units: the amount produced for an order is the    *)
(* capped quote value divided by the price, so that for a positive price    *)
(* amount * price = min(balance * f, balance * max_position_fraction), f    *)
(* being the cap when it is omitted.                                        *)
C21_BaseUnits ==
    (/\ Called("calculate_position_size")
     /\ RLt(Zero, unit.price)
     /\ unit.risk_percent = None \/ RLt(Zero, unit.risk_percent)) =>
        LET f == IF unit.risk_percent = None THEN risk.max_position_size
                 ELSE unit.risk_percent
        IN  RMul(unit.ret, unit.price) =
                RMin(RMul(unit.balance, f),
                     RMul(unit.balance, risk.max_position_size))

-----------------------------------------------------------------------------
(* what a call of validate_order must have returned and left alone *)
C22_ValidateStep ==
    (unit' # NoValue /\ unit'.op = "validate_order") =>
        LET required_balance == IF unit'.side = "buy"
                                THEN RMul(unit'.amount, unit'.price)
                                ELSE unit'.amount
            invalid == \/ RLt(unit'.balance, required_balance)
                       \/ RLt(RMul(unit'.balance, risk.max_position_size),
                              RMul(unit'.amount, unit'.price))
        IN  /\ unit'.ret.valid = ~invalid
            /\ invalid => unit'.ret.reason \in {"Insufficient balance",
                                                "Position size exceeds maximum"}
            /\ UNCHANGED backtest_vars

(* C22. Order validation: validate_order(side, amount, price, balance)      *)
(* returns valid = false with a reason exactly when required_balance >      *)
(* balance (amount * price for Buy, amount for Sell) or amount * price >    *)
(* balance * max_position_fraction, and valid = true in every other case;   *)
(* it changes no state.                                                     *)
C22_OrderValidation == [][C22_ValidateStep]_vars

(* a Sell whose amount exceeds the balance was refused although its value   *)
(* is within the balance and the cap                                        *)
C22_Witness ==
    /\ Called("validate_order")
    /\ unit.side = "sell"
    /\ RLt(unit.balance, unit.amount)
    /\ RLeq(RMul(unit.amount, unit.price), RMul(unit.balance, risk.max_position_size))
    /\ unit.ret.valid = FALSE

-----------------------------------------------------------------------------
(* C23. Exit triggers: stop_loss_triggered(entry, current, side) is true    *)
(* exactly when current <= entry * (1 - sl_pct) for Buy or current >=       *)
(* entry * (1 + sl_pct) for Sell, and take_profit_triggered is true exactly *)
(* when current >= entry * (1 + tp_pct) for Buy or current <= entry *       *)
(* (1 - tp_pct) for Sell, boundaries included; a Buy entered at 100 with    *)
(* sl_pct 0.03 has stop-loss price 97 and is triggered at 96.               *)
C23_ExitTriggers ==
    /\ Called("check_stop_loss") =>
          unit.ret =
             IF unit.side = "buy"
             THEN RLeq(unit.current_price,
                       RMul(unit.entry_price, RSub(One, risk.stop_loss)))
             ELSE RLeq(RMul(unit.entry_price, RAdd(One, risk.stop_loss)),
                       unit.current_price)
    /\ Called("check_take_profit") =>
          unit.ret =
             IF unit.side = "buy"
             THEN RLeq(RMul(unit.entry_price, RAdd(One, risk.take_profit)),
                       unit.current_price)
             ELSE RLeq(unit.current_price,
                       RMul(unit.entry_price, RSub(One, risk.take_profit)))

(* the stop-loss of a Buy entered at 100 with sl_pct 0.03 was found         *)
(* triggered at its boundary, 97                                            *)
C23_Witness ==
    /\ Called("check_stop_loss")
    /\ risk.stop_loss = R(3, 100)
    /\ unit.side = "buy"
    /\ unit.entry_price = Hundred
    /\ calculate_stop_loss_price(unit.entry_price, unit.side) = R(97, 1)
    /\ unit.current_price = R(97, 1)
    /\ unit.ret = TRUE

-----------------------------------------------------------------------------
(* the number of trades of a list with positive and with negative pnl *)
WinCount(ts) == Cardinality({ k \in 1..Len(ts) : RLt(Zero, ts[k].pnl) })

LossCount(ts) == Cardinality({ k \in 1..Len(ts) : RLt(ts[k].pnl, Zero) })

(* C24. Trade statistics: in a result with at least one trade, win_rate =   *)
(* wins / total_trades * 100 with wins the number of trades with pnl > 0,   *)
(* and profit_factor = (avg_win * win_count) / (avg_loss * loss_count),     *)
(* taken as 0 when that denominator is 0; when no trade has negative pnl,   *)
(* avg_loss = 0 and profit_factor = 0.                                      *)
C24_TradeStatistics ==
    (Called("calculate_metrics") /\ unit.trades # <<>>) =>
        LET r == unit.ret
            wins == WinCount(unit.trades)
            losses == LossCount(unit.trades)
            denominator == RMul(r.avg_loss, R(losses, 1))
        IN  /\ r.win_rate = RMul(R(wins, Len(unit.trades)), Hundred)
            /\ losses = 0 => r.avg_loss = Zero /\ r.profit_factor = Zero
            /\ r.profit_factor =
                   IF denominator = Zero THEN Zero
                   ELSE RDiv(RMul(r.avg_win, R(wins, 1)), denominator)

-----------------------------------------------------------------------------
(* C25. Zero trades: when a run over at least warmup bars closes no trade   *)
(* (no entry was ever accepted), the returned result has trade count 0,     *)
(* every derived metric (total_return, total_pnl, win_rate, avg_win,        *)
(* avg_loss, profit_factor, max_drawdown, sharpe_ratio) equal to 0 and      *)
(* final_balance = initial_balance.                                         *)
C25_ZeroTrades ==
    \A b \in instances :
        (pc[b] = "done" /\ df[b].n >= Warmup /\ trades[b] = <<>>) =>
            LET r == result[b][Len(result[b])]
            IN  /\ r.total_trades = 0 /\ r.winning_trades = 0 /\ r.losing_trades = 0
                /\ r.total_return = Zero /\ r.total_pnl = Zero
                /\ r.win_rate = Zero /\ r.avg_win = Zero /\ r.avg_loss = Zero
                /\ r.profit_factor = Zero /\ r.max_drawdown = Zero
                /\ r.sharpe_ratio = Zero
                /\ r.final_balance = R(InitialBalance, 1)
                /\ positions[b] = <<>>
                /\ balance[b] = R(InitialBalance, 1)

(* a run over two processed bars has returned without a trade *)
C25_Witness ==
    \E b \in instances :
        /\ pc[b] = "done"
        /\ df[b].n = Warmup + 2
        /\ Len(equity_curve[b]) = 3
        /\ trades[b] = <<>>
        /\ result[b] # NoValue

-----------------------------------------------------------------------------
(* C26. Non-negative balance: at every point of every run with a            *)
(* non-negative initial balance and positive bar prices the ledger balance  *)
(* is >= 0: no sequence of accepted entries, triggered exits and forced     *)
(* liquidations drives it below zero.                                       *)
C26_NonNegativeBalance ==
    \A b \in instances :
        (pc[b] # "idle" /\ ~Malformed(df[b])) => RLeq(Zero, balance[b])

-----------------------------------------------------------------------------
(* C27. Sizing and validation agree: for every balance > 0 and price > 0    *)
(* the amount that default sizing returns satisfies validate_order for a    *)
(* Buy at the same balance and price and satisfies amount * price <=        *)
(* balance, so an entry attempt made with a signal that should execute is   *)
(* accepted whatever the bar's close price.                                 *)
C27_SizingValidationAgree ==
    \A b \in instances :
        (/\ pc[b] = "entry"
         /\ ~Malformed(df[b])
         /\ should_execute_trade(signal[b][1])
         /\ RLt(Zero, balance[b])
         /\ RLt(Zero, CurrentPrice(b))) =>
            /\ validate_order("buy", AttemptSize(b), CurrentPrice(b), balance[b]).valid
            /\ RLeq(AttemptCost(b), balance[b])
            /\ ~AttemptAborted(b)

-----------------------------------------------------------------------------
(* C28. Reported final balance is the liquidated balance: in every result   *)
(* with at least one trade, final_balance, and the value total_return is    *)
(* computed from, is the ledger balance after the forced liquidation at     *)
(* the end of the run.                                                      *)
C28_FinalBalanceLiquidated ==
    \A b \in instances :
        (pc[b] = "done" /\ ~Malformed(df[b]) /\ trades[b] # <<>>) =>
            LET r == result[b][Len(result[b])]
            IN  /\ r.final_balance = balance[b]
                /\ r.total_return =
                       RMul(RDiv(RSub(balance[b], R(InitialBalance, 1)),
                                 R(InitialBalance, 1)), Hundred)

-----------------------------------------------------------------------------
(* C29. Exit check is complete: immediately after the exit check of a bar   *)
(* no position remains open whose stop-loss or take-profit condition holds  *)
(* at the bar's close; every position the check closes is closed at the     *)
(* bar's close price and timestamp, and the positions whose conditions do   *)
(* not hold are left open and unchanged.                                    *)
C29_ExitCheckComplete ==
    Called("check_exit_conditions") =>
        LET before == unit.ledger.positions
            hit == SelectSeq(before, LAMBDA p : Triggered(p, unit.current_price))
            kept == SelectSeq(before, LAMBDA p : ~Triggered(p, unit.current_price))
        IN  /\ \A q \in Range(unit.ret.positions) : ~Triggered(q, unit.current_price)
            /\ unit.ret.positions = kept
            /\ Len(unit.ret.trades) = Len(hit)
            /\ \A k \in 1..Len(hit) :
                  LET t == unit.ret.trades[k]
                  IN  /\ t.bar = hit[k].bar
                      /\ t.side = hit[k].side
                      /\ t.entry_price = hit[k].entry_price
                      /\ t.exit_price = unit.current_price
                      /\ t.exit_time = unit.timestamp

(* of two open positions the check closed one, for its take-profit, and     *)
(* left the other open                                                      *)
C29_Witness ==
    /\ Called("check_exit_conditions")
    /\ Len(unit.ledger.positions) = 2
    /\ Len(unit.ret.positions) = 1
    /\ Len(unit.ret.trades) = 1
    /\ check_take_profit(unit.ret.trades[1].entry_price, unit.current_price,
                         unit.ret.trades[1].side)
    /\ ~check_stop_loss(unit.ret.trades[1].entry_price, unit.current_price,
                        unit.ret.trades[1].side)

-----------------------------------------------------------------------------
(* the positions a run has opened so far, open or closed into a trade, each *)
(* by the bar it was opened at and the id it was given                      *)
OpenedSoFar(b) ==
    { [bar |-> p.bar, id |-> p.id] : p \in Range(positions[b]) }
    \cup { [bar |-> t.bar, id |-> t.id] : t \in Range(trades[b]) }

(* C30. Unique position ids: within one run no two positions, whether open  *)
(* or already closed into trades, have the same id, for any sequence of     *)
(* opens and closes.                                                        *)
C30_UniquePositionIds ==
    \A b \in instances :
        (pc[b] # "idle" /\ ~Malformed(df[b])) =>
            \A x, y \in OpenedSoFar(b) : x.id = y.id => x.bar = y.bar

-----------------------------------------------------------------------------
(* C31. Loss count: in every result, losing_trades equals the number of     *)
(* closed trades with pnl < 0 and winning_trades the number with pnl > 0,   *)
(* so a break-even trade (pnl = 0) is counted in neither.                   *)
C31_LossCount ==
    Called("calculate_metrics") =>
        /\ unit.ret.winning_trades = WinCount(unit.trades)
        /\ unit.ret.losing_trades = LossCount(unit.trades)

-----------------------------------------------------------------------------
(* the sum over the open positions of (price - entry) * amount for a buy    *)
(* and (entry - price) * amount for a sell                                  *)
RECURSIVE UnrealizedSum(_, _)
UnrealizedSum(ps, price) ==
    IF ps = <<>> THEN Zero
    ELSE LET pos == ps[Len(ps)]
             u == IF pos.side = "buy"
                  THEN RMul(RSub(price, pos.entry_price), pos.amount)
                  ELSE RMul(RSub(pos.entry_price, price), pos.amount)
         IN  RAdd(UnrealizedSum(SubSeq(ps, 1, Len(ps) - 1), price), u)

IsPrefix(s, t) == Len(s) <= Len(t) /\ SubSeq(t, 1, Len(s)) = s

(* C32. Equity snapshot per bar: during a run, the mark-to-market step of   *)
(* the k-th processed bar leaves equity_curve with exactly k+1 entries; it  *)
(* appends balance plus the sum over the open positions of (price - entry)  *)
(* * amount for Buy and (entry - price) * amount for Sell at that bar's     *)
(* close; no step of a run removes or rewrites an entry.                    *)
C32_EquitySnapshot ==
    [][\A b \in instances :
          /\ pc[b] # "idle" => IsPrefix(equity_curve[b], equity_curve'[b])
          /\ (pc[b] = "equity" /\ pc'[b] # "equity") =>
                /\ equity_curve'[b] =
                       Append(equity_curve[b],
                              RAdd(balance[b],
                                   UnrealizedSum(positions[b], CurrentPrice(b))))
                /\ Len(equity_curve'[b]) = (i[b] - Warmup + 1) + 1
          /\ (pc[b] \notin {"idle", "equity"}) => equity_curve'[b] = equity_curve[b]]_vars

(* a bar marked to market with a position open away from its entry price *)
C32_Witness ==
    \E b \in instances :
        /\ pc[b] = "liquidate" /\ i[b] = Warmup + 2
        /\ Len(equity_curve[b]) = 3
        /\ Len(positions[b]) = 1 /\ positions[b][1].side = "buy"
        /\ positions[b][1].entry_price = One
        /\ positions[b][1].amount = R(200, 1)
        /\ Row(df[b], Warmup + 1).close = R(99, 100)
        /\ balance[b] = R(800, 1)
        /\ equity_curve[b][3] = R(798, 1)

-----------------------------------------------------------------------------
(* C33. Cache is restored: the data fetcher's cache that the backtest       *)
(* replaces to feed the signal query is restored to its previous value      *)
(* before the entry step of every bar, also when the signal query fails;    *)
(* after run_backtest returns (normally or with the empty result) the cache *)
(* equals what it was before the call.  Outside the signal query of a bar   *)
(* the cache is the one the strategy had before the call; the step before   *)
(* the query keeps the value it replaces, the step after it puts that value *)
(* back, and no other step of the run changes the cache.                    *)
C33_CacheRestored ==
    /\ [](\A b \in instances :
             pc[b] \notin {"signal", "restore"} => cache = CachedBefore)
    /\ [][\A b \in instances :
             /\ (pc[b] = "setcache" /\ pc'[b] = "signal") => old_cache'[b] = cache
             /\ (pc[b] = "signal" /\ pc'[b] = "restore") =>
                    cache' = cache /\ old_cache'[b] = old_cache[b]
             /\ (pc[b] = "restore" /\ pc'[b] = "entry") => cache' = old_cache[b]
             /\ pc[b] \notin {"setcache", "restore"} => cache' = cache]_vars

(* the entry step of a bar whose signal query raised, over data the query   *)
(* read from the replaced cache                                             *)
C33_Witness ==
    \E b \in instances :
        /\ pc[b] = "entry" /\ i[b] = Warmup + 1
        /\ symbol[b] = "ETHIRT"
        /\ signal[b] = <<RaisedSignal>>
        /\ visible[b] = <<Slice(df[b], i[b] + 1)>>
        /\ cache = CachedBefore
        /\ cache # { [key |-> symbol[b], data |-> CurrentData(b)] }

-----------------------------------------------------------------------------
(* C34. Live order guard: one process_pair call of the trading service      *)
(* places at most one order, and places it only if trading is enabled, the  *)
(* symbol has no open orders, the signal's action is not hold,              *)
(* should_execute_trade is true, the ticker's last price is non-zero, the   *)
(* computed amount is > 0 and validate_order returns valid; when the symbol *)
(* has open orders no signal is generated and no order is placed.           *)
C34_LiveOrderGuard ==
    /\ Called("start") => unit.ret.orders = <<>>
    /\ Called("process_pair") =>
        /\ Len(unit.ret.orders) <= 1
        /\ unit.ret.orders # <<>> =>
              /\ unit.trading_enabled
              /\ unit.open_orders = Return(<<>>)
              /\ unit.signal.ok
              /\ unit.signal.value.action # "hold"
              /\ should_execute_trade(unit.signal.value)
              /\ unit.ticker.ok
              /\ "last" \in DOMAIN unit.ticker.value
              /\ unit.ticker.value.last # Zero
              /\ unit.wallet.ok
              /\ LET side == unit.signal.value.action
                     price == unit.ticker.value.last
                     available == IF side = "buy" THEN unit.wallet.value.quote
                                  ELSE unit.wallet.value.base
                     amount == calculate_position_size(available, price, None)
                 IN  /\ RLt(Zero, amount)
                     /\ validate_order(side, amount, price, available).valid
                     /\ unit.ret.orders[1].side = side
                     /\ unit.ret.orders[1].amount = amount
        /\ (unit.open_orders.ok /\ unit.open_orders.value # <<>>) =>
              ~unit.ret.generated /\ unit.ret.orders = <<>>

(* a sell order placed for a pair without open orders *)
C34_Witness ==
    /\ Called("process_pair")
    /\ unit.open_orders = Return(<<>>)
    /\ unit.signal.ok /\ unit.signal.value.action = "sell"
    /\ unit.ticker = Return([last |-> R(1, 2)])
    /\ unit.wallet = Return([quote |-> Zero, base |-> R(3, 1)])
    /\ Len(unit.ret.orders) = 1
    /\ unit.ret.orders[1].side = "sell"
    /\ unit.ret.generated

-----------------------------------------------------------------------------
(* b to the power k *)
RECURSIVE RPow(_, _)
RPow(b, k) == IF k = 0 THEN One ELSE RMul(b, RPow(b, k - 1))

(* the positions in a log of the invocations and of the sleeps *)
CallsAt(log) == { j \in 1..Len(log) : log[j].kind = "call" }
SleepsAt(log) == { j \in 1..Len(log) : log[j].kind = "sleep" }

(* C35. Bounded retry: a call to a function wrapped with                    *)
(* retry(max_attempts = n), n >= 1, invokes the function at most n times;   *)
(* it returns the result of the first invocation that succeeds and invokes  *)
(* nothing after it; if all n invocations raise, the call raises the        *)
(* exception of the n-th invocation; it waits only between invocations (at  *)
(* most n-1 waits), the k-th wait lasting delay * backoff^(k-1).            *)
C35_BoundedRetry ==
    (Called("retry") /\ unit.max_attempts >= 1) =>
        LET n == unit.max_attempts
            log == unit.log
            calls == CallsAt(log)
            sleeps == SleepsAt(log)
        IN  /\ Cardinality(calls) <= n
            /\ Cardinality(sleeps) <= n - 1
            /\ \A j \in calls : log[j].out.ok =>
                  /\ j = Len(log)
                  /\ unit.status = "returned"
                  /\ unit.ret = log[j].out
            /\ unit.status = "returned" =>
                  Len(log) > 0 /\ log[Len(log)].kind = "call" /\ log[Len(log)].out.ok
            /\ unit.status = "raised" =>
                  /\ Cardinality(calls) = n
                  /\ \A j \in calls : ~log[j].out.ok
                  /\ log[Len(log)].kind = "call"
                  /\ unit.ret = log[Len(log)].out
            /\ \A j \in sleeps :
                  /\ j > 1 /\ log[j - 1].kind = "call" /\ ~log[j - 1].out.ok
                  /\ j < Len(log) => log[j + 1].kind = "call"
                  /\ j = Len(log) => unit.status = "loop"
                  /\ log[j].out =
                       RMul(unit.delay,
                            RPow(unit.backoff,
                                 Cardinality({ m \in sleeps : m < j })))

(* a call that failed twice, waited 1/2 and then 1, and returned the result *)
(* of the third invocation                                                  *)
C35_Witness ==
    /\ Called("retry")
    /\ unit.max_attempts = 3 /\ unit.delay = R(1, 2) /\ unit.backoff = R(2, 1)
    /\ unit.status = "returned"
    /\ unit.log = << Invocation(Raised("e1")), Sleep(R(1, 2)),
                     Invocation(Raised("e2")), Sleep(One),
                     Invocation(Return("b")) >>
    /\ unit.ret = Return("b")

(* a call whose invocations all raised, ending with the last exception *)
C35_WitnessRaised ==
    /\ Called("retry")
    /\ unit.max_attempts = 2
    /\ unit.status = "raised"
    /\ unit.log = << Invocation(Raised("e1")), Sleep(One), Invocation(Raised("e2")) >>
    /\ unit.ret = Raised("e2")

====
